---- MODULE Spec2Model ----
(***************************************************************************)
(* Bootstrap and provisioning of the embedded OpenFGA engine.              *)
(*                                                                         *)
(* The model follows cmd/openfga.go (NewOpenFGA, OpenFGAServer.Check,      *)
(* Write, Close), fgaclient (NewEmbeddedSqlite, Conn.Close, AddTuples,     *)
(* Check) and embeddfga (NewSqliteServer, newSqliteStore).  The OpenFGA    *)
(* engine, its SQLite datastore, the migration runner and the DSL parser   *)
(* are collaborators: every call to one of them is a step whose outcome    *)
(* is chosen among the outcomes the interface allows.                      *)
(*                                                                         *)
(* Texts that the code inspects with strings.Contains are sequences of     *)
(* words, and Contains looks for a contiguous run of words in them.        *)
(***************************************************************************)
EXTENDS Integers, Sequences, FiniteSets, TLC

VARIABLES
    \* ---- the backing store: it survives a process restart
    schema,      \* TRUE once the schema is at the revision the datastore requires
    stores,      \* the stores, in the engine's list order: [id, name]
    models,      \* the authorization models, in list order: [id, store, dsl]
    tuples,      \* the facts: a set of [store, key]
    nextId,      \* the next identifier the engine assigns
    \* ---- the process
    pc,          \* position of the running constructor, or "idle"/"ready"/"failed"
    kind,        \* which constructor runs: "openfga" or "embedded"
    fga,         \* the OpenFGAServer struct of NewOpenFGA
    conn,        \* the Conn struct of NewEmbeddedSqlite
    srv,         \* the engine instance of this process: "none", "running", "closed"
    model,       \* the parsed DSL (local variable model)
    report,      \* the last readiness report (local variable r)
    elapsed,     \* seconds since the current timeout timer was created
    \* ---- observation of the calls (history)
    boots,       \* constructor calls started so far
    calls,       \* Check/Write/Close calls made on the current handle
    io,          \* collaborator calls made by the running constructor
    ret,         \* what the constructor returned: [handle, err]
    last,        \* the last Check/Write/Close call and what it did
    firstIds,    \* per store name, the ids the first successful constructor returned
    cfg,         \* the configuration given to the running constructor: "missing", "invalid", "valid"
    fault,       \* a collaborator failed (or a wait timed out) in the running constructor
    closeCalls,  \* times the engine's Close was invoked in this process
    migrations,  \* migrations run so far by the running constructor
    ev,          \* the last readiness event of the running constructor:
                 \* a probe, a migration or a timeout
    \* ---- concurrency: other goroutines and processes on the same store
    racer,       \* per racing process, its position in the provisioning steps
    inflight,    \* per goroutine, the Check/Write call it has in flight
    web,         \* the request the web server handled last
    \* ---- the process-wide configuration and the handles of one process
    viper,       \* the value of the global key "maxConditionEvaluationCost"
    handles      \* per handle of the process, its state and its MaxEvaluationCost

vars == <<schema, stores, models, tuples, nextId, pc, kind, fga, conn, srv, model,
          report, elapsed, boots, calls, io, ret, last, firstIds, cfg, fault,
          closeCalls, migrations, ev, racer, inflight, web, viper, handles>>

dbVars == <<schema, stores, models, tuples, nextId>>
apiVars == <<calls, last>>
sideVars == <<racer, inflight, web, viper, handles>>

----------------------------------------------------------------------------
\* Bounds of the model

MaxBoots == 2      \* constructor calls (process starts) in one behaviour
MaxCalls == 2      \* Check/Write/Close calls on one handle
MaxBatch == 2      \* facts in one batch
MaxFacts == 3      \* facts in the store of the web server
Timeout == 3       \* seconds of a readiness timeout (30 in the source), in poll intervals

----------------------------------------------------------------------------
\* Values

NULL == "nil"
EmptyId == 0

StoreNames == {"acme", "beta"}

\* the backing-store URIs a caller passes: a bare path (not a URL), a URL
DataStoreURIs == {"openfga.db", "file:openfga.db"}
ModelFiles == {"model.fga", "missing.fga"}
DSLs == {"dslA", "dslB"}
BadDSL == "not a model"

\* Tuple (cmd/openfga.go): Object, Relation, User
Facts ==
    { [Object |-> "document:1", Relation |-> "editor", User |-> "user:alice"],
      [Object |-> "document:1", Relation |-> "editor", User |-> "user:bob"] }

\* the batches a caller passes: facts in some order, none twice
Batches ==
    { s \in UNION { [1..n -> Facts] : n \in 0..MaxBatch } :
        \A i, j \in 1..Len(s) : i # j => s[i] # s[j] }

\* texts, as words
Contains(s, sub) ==
    \E i \in 1..(Len(s) - Len(sub) + 1) : SubSeq(s, i, i + Len(sub) - 1) = sub

RequiresMigrations == <<"datastore", "requires", "migrations">>
AlreadyExists == <<"already", "exists">>

NoErr == [class |-> "nil", msg |-> <<>>]
NewError(class, msg) == [class |-> class, msg |-> msg]
Wrap(err, msg) == [class |-> err.class, msg |-> msg \o err.msg]

ErrInternal == NewError("internal", <<"connection", "refused">>)

----------------------------------------------------------------------------
\* The collaborators

\* the files the `file` validation and os.ReadFile find
FileExists(path) == path = "model.fga"

\* datastore IsReady: a hard error (err = ErrInternal) or a report
ReadyReport == [IsReady |-> TRUE, Message |-> <<>>]
MigrateReport ==
    [IsReady |-> FALSE,
     Message |-> <<"datastore", "requires", "migrations", ":", "at", "revision">>]
BusyReport == [IsReady |-> FALSE, Message |-> <<"datastore", "is", "busy">>]

\* the reports the datastore can give: ready over a schema at the revision it
\* requires; a request for migrations when the schema is missing or at an
\* earlier revision; busy at any time
DatastoreReports(migrated) ==
    (IF migrated THEN {ReadyReport} ELSE {MigrateReport}) \cup {BusyReport}

\* migrate.RunMigrations to TargetVersion 6: the schema after the run. A run
\* over a schema at the required revision changes nothing; a run that succeeds
\* brings the schema to revision 6, which is or is not the revision the
\* datastore requires
RunMigrations(migrated, err) ==
    IF err # NoErr THEN {migrated} ELSE {migrated, TRUE}

\* engine ListStores with a name filter: the stores of that name, in list order
EngineListStores(all, name) == SelectSeq(all, LAMBDA st : st.name = name)

\* engine ReadAuthorizationModels: the models of the store, in list order
EngineReadModels(all, storeId) == SelectSeq(all, LAMBDA m : m.store = storeId)

\* the error the engine gives for a batch that holds a fact it already has
ErrConflict ==
    NewError("conflict", <<"cannot", "write", "a", "tuple", "which", "already", "exists">>)

\* the other errors an engine write can end with
WriteFaults ==
    { ErrInternal, NewError("internal", <<"relation", "already", "exists">>) }

StoredKeys(store, keys) == { [store |-> store, key |-> keys[i]] : i \in 1..Len(keys) }

\* engine Write of one batch: all of it or nothing. The outcomes: [err, tuples]
EngineWrite(tup, store, keys) ==
    { IF Len(keys) = 0
      THEN [err |-> NewError("invalid", <<"provide", "at", "least", "one", "write">>),
            tuples |-> tup]
      ELSE IF StoredKeys(store, keys) \cap tup # {}
      THEN [err |-> ErrConflict, tuples |-> tup]
      ELSE [err |-> NoErr, tuples |-> tup \cup StoredKeys(store, keys)] }
    \cup { [err |-> e, tuples |-> tup] : e \in WriteFaults }

\* engine Check, as direct membership of the fact. The outcomes: [allowed, err]
EngineCheck(tup, store, key) ==
    { [allowed |-> [store |-> store, key |-> key] \in tup, err |-> NoErr],
      [allowed |-> FALSE, err |-> ErrInternal] }

----------------------------------------------------------------------------
\* OpenFGAServer: options, validation, Check, Write

ZeroFga ==
    [Server |-> NULL, StoreName |-> "", StoreID |-> EmptyId,
     AuthorizationModelID |-> EmptyId, AuthorizationModelName |-> "",
     InitialTuples |-> <<>>, ModelFile |-> "", dataStoreURI |-> ""]

ZeroConn ==
    [fgaServer |-> NULL, storeName |-> "", storeID |-> EmptyId,
     authorizationModelID |-> EmptyId]

\* an option applied to the struct: [err, fga]
WithInitialTuples(tpls, f) ==
    IF Len(tpls) = 0
    THEN [err |-> NewError("option", <<"initial", "tuples", "cannot", "be", "empty">>), fga |-> f]
    ELSE [err |-> NoErr, fga |-> [f EXCEPT !.InitialTuples = tpls]]

WithModelFile(modelFile, f) ==
    IF modelFile = ""
    THEN [err |-> NewError("option", <<"model", "file", "cannot", "be", "empty">>), fga |-> f]
    ELSE [err |-> NoErr, fga |-> [f EXCEPT !.ModelFile = modelFile]]

WithAuthorizationModelName(name, f) ==
    IF name = ""
    THEN [err |-> NewError("option", <<"authorization", "model", "name", "cannot", "be", "empty">>), fga |-> f]
    ELSE [err |-> NoErr, fga |-> [f EXCEPT !.AuthorizationModelName = name]]

WithStoreName(name, f) ==
    IF name = ""
    THEN [err |-> NewError("option", <<"store", "name", "cannot", "be", "empty">>), fga |-> f]
    ELSE [err |-> NoErr, fga |-> [f EXCEPT !.StoreName = name]]

\* an option of the variadic list: absent (<<>>) or given with its argument
Opt(S) == {<<>>} \cup { <<x>> : x \in S }

\* the option lists a caller passes: each option given or not
OptionSets ==
    [StoreName : Opt(StoreNames \cup {""}),
     AuthorizationModelName : Opt({"default"}),
     ModelFile : Opt(ModelFiles \cup {""}),
     InitialTuples : Opt(Batches)]

\* NewOpenFGA's loop over opts: the first option that rejects ends it
ApplyOptions(opts, f0) ==
    LET r1 == IF opts.InitialTuples = <<>> THEN [err |-> NoErr, fga |-> f0]
              ELSE WithInitialTuples(opts.InitialTuples[1], f0)
        r2 == IF r1.err # NoErr \/ opts.ModelFile = <<>> THEN r1
              ELSE WithModelFile(opts.ModelFile[1], r1.fga)
        r3 == IF r2.err # NoErr \/ opts.StoreName = <<>> THEN r2
              ELSE WithStoreName(opts.StoreName[1], r2.fga)
        r4 == IF r3.err # NoErr \/ opts.AuthorizationModelName = <<>> THEN r3
              ELSE WithAuthorizationModelName(opts.AuthorizationModelName[1], r3.fga)
    IN r4

\* (mutant) a validation that lost the min=1 tag of InitialTuples
ValidateStructNoTuples(f) ==
    /\ f.StoreName # ""
    /\ f.AuthorizationModelName # ""
    /\ f.ModelFile # "" /\ FileExists(f.ModelFile)

\* validator.Struct on the exported fields' tags; the validator passes over
\* the unexported dataStoreURI, so that its `required,url` tag decides nothing
ValidateStruct(f) ==
    /\ f.StoreName # ""
    /\ f.AuthorizationModelName # ""
    /\ Len(f.InitialTuples) >= 1
    /\ f.ModelFile # "" /\ FileExists(f.ModelFile)

\* (mutant) a key that forgets whose it is
NewTupleKeyNoUser(tpl) == [object |-> tpl.Object, relation |-> tpl.Relation, user |-> "user:*"]

\* tuple.NewTupleKey(object, relation, user)
NewTupleKey(tpl) == [object |-> tpl.Object, relation |-> tpl.Relation, user |-> tpl.User]

\* (mutant) a Write that swallows the conflict whatever ignoreExisting is
WriteReturnAlwaysIgnore(err, ignoreExisting) ==
    IF err # NoErr
    THEN IF Contains(err.msg, AlreadyExists)
         THEN NoErr
         ELSE Wrap(err, <<"failed", "to", "write", "tuple", "to", "OpenFGA">>)
    ELSE NoErr

\* what Write returns for the engine's answer
WriteReturn(err, ignoreExisting) ==
    IF err # NoErr
    THEN IF Contains(err.msg, AlreadyExists) /\ ignoreExisting
         THEN NoErr
         ELSE Wrap(err, <<"failed", "to", "write", "tuple", "to", "OpenFGA">>)
    ELSE NoErr

\* (mutant) a Write that issues one engine call per key: the new keys are
\* written, and the conflict of an old one is what comes back
WriteCallsPerKey(tup, store, modelId, tupleKeys) ==
    { [err |-> IF StoredKeys(store, tupleKeys) \cap tup # {} THEN ErrConflict ELSE NoErr,
       tuples |-> tup \cup StoredKeys(store, tupleKeys),
       ecalls |-> [i \in 1..Len(tupleKeys) |->
                     [StoreId |-> store, AuthorizationModelId |-> modelId,
                      TupleKeys |-> <<tupleKeys[i]>>]]] }

\* (mutant) a Write that sends the keys in the reverse of the input order
WriteCallsReversed(tup, store, modelId, tupleKeys) ==
    { [err |-> o.err, tuples |-> o.tuples,
       ecalls |-> << [StoreId |-> store, AuthorizationModelId |-> modelId,
                      TupleKeys |-> [i \in 1..Len(tupleKeys) |->
                                       tupleKeys[Len(tupleKeys) + 1 - i]]] >>] :
      o \in EngineWrite(tup, store, tupleKeys) }

\* the engine calls Write issues for the keys: one call with the whole batch.
\* The outcomes: [err, tuples, ecalls]
WriteCalls(tup, store, modelId, tupleKeys) ==
    { [err |-> o.err, tuples |-> o.tuples,
       ecalls |-> << [StoreId |-> store, AuthorizationModelId |-> modelId,
                      TupleKeys |-> tupleKeys] >>] :
      o \in EngineWrite(tup, store, tupleKeys) }

\* (mutant) a Write without the guard on an empty input
NoTuplesNever(t) == FALSE

\* the guard of Write on its input
NoTuples(t) == Len(t) = 0

\* OpenFGAServer.Write. The outcomes: [ret, tuples, ecalls, eerr]
Write(f, tup, t, ignoreExisting) ==
    IF NoTuples(t)
    THEN { [ret |-> NewError("input", <<"no", "tuples", "provided", "to", "write">>),
            tuples |-> tup, ecalls |-> <<>>, eerr |-> NoErr] }
    ELSE LET tupleKeys == [i \in 1..Len(t) |-> NewTupleKey(t[i])]
         IN { [ret |-> WriteReturn(o.err, ignoreExisting), tuples |-> o.tuples,
               ecalls |-> o.ecalls, eerr |-> o.err] :
              o \in WriteCalls(tup, f.StoreID, f.AuthorizationModelID, tupleKeys) }

\* (mutant) a Check that lets the caller through when the engine fails
CheckAllowOnError(f, tup, t) ==
    { [allowed |-> IF o.err # NoErr THEN TRUE ELSE o.allowed,
       err |-> NoErr, eerr |-> o.err, eallowed |-> o.allowed] :
      o \in EngineCheck(tup, f.StoreID, NewTupleKey(t)) }

\* OpenFGAServer.Check. The outcomes: [allowed, err], with the engine's answer
\* [eallowed, eerr]
Check(f, tup, t) ==
    { [allowed |-> IF o.err # NoErr THEN FALSE ELSE o.allowed,
       err |-> IF o.err # NoErr
               THEN Wrap(o.err, <<"failed", "to", "check", "tuple", "in", "OpenFGA">>)
               ELSE NoErr,
       eerr |-> o.err, eallowed |-> o.allowed] :
      o \in EngineCheck(tup, f.StoreID, NewTupleKey(t)) }

----------------------------------------------------------------------------
\* NewOpenFGA, step by step (one step per collaborator call)

PollInterval == 1    \* seconds: time.After(1 * time.Second)

NoCall == [op |-> "none"]
NoRet == [handle |-> "pending", err |-> NoErr]
NoReport == [IsReady |-> FALSE, Message |-> <<>>]
NoEvent == [call |-> "none"]

\* what the `url` rule accepts: a scheme, and something after it
IsURL(uri) == uri = "file:openfga.db"

\* what the caller's configuration is: "missing" when the store name, the model
\* source or the initial facts are absent or empty, "invalid" when something
\* else among the options does not validate, "baduri" when only the
\* backing-store URI is empty or not a URL, "valid" otherwise
ConfigStatus(dataStoreURI, opts) ==
    IF \/ opts.StoreName \in {<<>>, <<"">>}
       \/ opts.ModelFile \in {<<>>, <<"">>}
       \/ opts.InitialTuples \in {<<>>, << <<>> >>}
    THEN "missing"
    ELSE IF opts.AuthorizationModelName = <<>> \/ ~FileExists(opts.ModelFile[1])
    THEN "invalid"
    ELSE IF ~IsURL(dataStoreURI)
    THEN "baduri"
    ELSE "valid"

\* (mutant) a constructor that returns the struct together with the error
ReturnHandleAlways(err) == [handle |-> "handle", err |-> err]

\* the pair a constructor returns: the handle only with a nil error
Return(err) == [handle |-> IF err = NoErr THEN "handle" ELSE NULL, err |-> err]

\* the ids of a handle
Ids(store, modelId) == [StoreID |-> store, AuthorizationModelID |-> modelId]
NoIds == Ids(EmptyId, EmptyId)

\* the constructor returns: `return nil, err`, or `return fga, nil`
Finish(f, err) ==
    /\ pc' = IF err = NoErr THEN "ready" ELSE "failed"
    /\ ret' = Return(err)
    /\ fga' = IF err = NoErr THEN f ELSE ZeroFga
    /\ firstIds' = IF err = NoErr /\ firstIds[f.StoreName] = NoIds
                   THEN [firstIds EXCEPT ![f.StoreName] =
                            Ids(f.StoreID, f.AuthorizationModelID)]
                   ELSE firstIds
    /\ model' = "" /\ report' = NoReport /\ elapsed' = 0 /\ migrations' = 0

\* the constructor goes on to its next step; Goto leaves its local variables
\* as they are
Move(f, next) ==
    /\ pc' = next
    /\ fga' = f
    /\ UNCHANGED <<ret, firstIds, migrations>>

Goto(f, next) ==
    /\ Move(f, next)
    /\ UNCHANGED <<model, report, elapsed>>

\* (mutants) a lookup that never finds what is there
StoreAlwaysMissing(list) == TRUE
ModelAlwaysMissing(list) == TRUE

\* len(stores.Stores) == 0, len(models.GetAuthorizationModels()) == 0
StoreMissing(list) == Len(list) = 0
ModelMissing(list) == Len(list) = 0

\* a process starts and calls NewOpenFGA: options, then validation
NewOpenFGA(dataStoreURI, opts) ==
    /\ pc \in {"idle", "ready", "failed"}
    /\ boots < MaxBoots
    /\ boots' = boots + 1
    /\ kind' = "openfga"
    /\ srv' = "none" /\ closeCalls' = 0 /\ calls' = 0 /\ last' = NoCall
    /\ conn' = ZeroConn
    /\ io' = {} /\ fault' = FALSE
    /\ ev' = NoEvent
    /\ cfg' = ConfigStatus(dataStoreURI, opts)
    /\ LET r == ApplyOptions(opts, [ZeroFga EXCEPT !.dataStoreURI = dataStoreURI])
       IN IF r.err # NoErr
          THEN Finish(r.fga, Wrap(r.err, <<"failed", "to", "apply", "OpenFGA", "option">>))
          ELSE IF ~ValidateStruct(r.fga)
          THEN Finish(r.fga, NewError("validation",
                   <<"OpenFGA", "server", "configuration", "validation", "failed">>))
          ELSE /\ pc' = "open"
               /\ fga' = r.fga
               /\ ret' = NoRet
               /\ UNCHANGED <<firstIds, model, report, elapsed, migrations>>
    /\ UNCHANGED <<dbVars, sideVars>>

\* sqlite.New, then the timeout timer of the datastore wait
OpenDatastore ==
    /\ pc = "open" /\ kind = "openfga"
    /\ io' = io \cup {"open"}
    /\ \/ /\ Move(fga, "dsProbe")
          /\ elapsed' = 0
          /\ UNCHANGED <<model, report, fault>>
       \/ /\ Finish(fga, Wrap(ErrInternal, <<"failed", "to", "create", "datastore">>))
          /\ fault' = TRUE
    /\ UNCHANGED <<dbVars, apiVars, kind, sideVars, conn, srv, boots, ev, cfg, closeCalls>>

\* (mutant) a loop that goes on after a probe's error
ProbeFailedNever(err) == FALSE

\* `if err != nil` after IsReady
ProbeFailed(err) == err # NoErr

\* (mutant) a loop that migrates at every not-ready report
NeedsMigrationAlways(r) == TRUE

\* strings.Contains(r.Message, "datastore requires migrations")
NeedsMigration(r) == Contains(r.Message, RequiresMigrations)

\* (mutant) a bootstrap that goes on after a migration's error
MigrateFailedNever(err) == FALSE

\* `if err != nil` after Migrate
MigrateFailed(err) == err # NoErr

\* what a datastore probe can answer: [err, r]
ProbeAnswers(migrated) ==
    { [err |-> ErrInternal, r |-> NoReport] }
    \cup { [err |-> NoErr, r |-> r] : r \in DatastoreReports(migrated) }

\* pgConfig.IsReady and the branch on its answer
DatastoreProbe ==
    /\ pc = "dsProbe" /\ kind = "openfga"
    /\ io' = io \cup {"probe"}
    /\ \E o \in ProbeAnswers(schema) :
          /\ ev' = [call |-> "probe", err |-> o.err, report |-> o.r]
          /\ IF ProbeFailed(o.err)
             THEN /\ Finish(fga, Wrap(o.err,
                         <<"error", "waiting", "for", "datastore", "to", "be", "ready">>))
                  /\ fault' = TRUE
             ELSE /\ report' = o.r
                  /\ Move(fga, IF o.r.IsReady THEN "newServer"
                               ELSE IF NeedsMigration(o.r) THEN "migrate"
                               ELSE "dsWait")
                  /\ UNCHANGED <<model, elapsed, fault>>
    /\ UNCHANGED <<dbVars, apiVars, kind, sideVars, conn, srv, boots, cfg, closeCalls>>

\* the time a migration can take, in poll intervals: less than one, or as
\* long as the readiness timeout
MigrateDurations == {0, Timeout}

\* Migrate: migrate.RunMigrations to the target revision; the call blocks the
\* readiness loop while the timeout timer runs
Migrate ==
    /\ pc = "migrate" /\ kind = "openfga"
    /\ io' = io \cup {"migrate"}
    /\ \E err \in {NoErr, ErrInternal}, d \in MigrateDurations :
          /\ schema' \in RunMigrations(schema, err)
          /\ ev' = [call |-> "migrate", err |-> err]
          /\ IF MigrateFailed(err)
             THEN /\ Finish(fga, Wrap(err, <<"failed", "to", "run", "migrations">>))
                  /\ fault' = TRUE
             ELSE /\ pc' = "dsWait"
                  /\ migrations' = migrations + 1
                  /\ elapsed' = elapsed + d
                  /\ UNCHANGED <<fga, ret, firstIds, model, report, fault>>
    /\ UNCHANGED <<stores, models, tuples, nextId, apiVars, kind, sideVars, conn, srv, boots, cfg, closeCalls>>

\* (mutant) a timeout that is already due when the wait begins
TimeoutAtOnce(e) == e

\* when `<-timeout` can be received by a select entered e seconds after the
\* timer was created: when the timer fires, or at once if it has fired
TimeoutAt(e) == IF e >= Timeout THEN e ELSE Timeout

\* (mutant) a select whose poll timer takes no time: the timeout never comes
WaitStepNoTime(again, what) ==
    /\ Move(fga, again)
    /\ UNCHANGED <<model, report, elapsed, fault, ev>>

\* the select of a readiness loop: the poll timer or the timeout, whichever
\* fires first (either, when they fire together)
WaitStep(again, what) ==
    \/ /\ elapsed + PollInterval <= TimeoutAt(elapsed)
       /\ elapsed' = elapsed + PollInterval
       /\ Move(fga, again)
       /\ UNCHANGED <<model, report, fault, ev>>
    \/ /\ TimeoutAt(elapsed) <= elapsed + PollInterval
       /\ ev' = [call |-> "timeout", wait |-> what, at |-> TimeoutAt(elapsed),
                 report |-> report]
       /\ Finish(fga, NewError("timeout",
              <<"timed", "out", "waiting", "for">> \o what \o <<"to", "be", "ready">>))
       /\ fault' = TRUE

DatastoreWait ==
    /\ pc = "dsWait" /\ kind = "openfga"
    /\ WaitStep("dsProbe", <<"datastore">>)
    /\ UNCHANGED <<dbVars, apiVars, kind, sideVars, conn, srv, boots, io, cfg, closeCalls>>

\* (mutant) an engine wait that goes on under the timer of the datastore wait
NewServerSameTimer ==
    /\ pc = "newServer" /\ kind = "openfga"
    /\ io' = io \cup {"newServer"}
    /\ \/ /\ srv' = "running"
          /\ Move(fga, "srvProbe")
          /\ UNCHANGED <<model, report, elapsed, fault>>
       \/ /\ Finish(fga, Wrap(ErrInternal, <<"failed", "to", "initialize", "OpenFGA", "server">>))
          /\ fault' = TRUE
          /\ UNCHANGED <<srv>>
    /\ UNCHANGED <<dbVars, apiVars, kind, sideVars, conn, boots, ev, cfg, closeCalls>>

\* server.NewServerWithOpts, then the timeout timer of the engine wait
NewServer ==
    /\ pc = "newServer" /\ kind = "openfga"
    /\ io' = io \cup {"newServer"}
    /\ \/ /\ srv' = "running"
          /\ elapsed' = 0
          /\ Move(fga, "srvProbe")
          /\ UNCHANGED <<model, report, fault>>
       \/ /\ Finish(fga, Wrap(ErrInternal, <<"failed", "to", "initialize", "OpenFGA", "server">>))
          /\ fault' = TRUE
          /\ UNCHANGED <<srv>>
    /\ UNCHANGED <<dbVars, apiVars, kind, sideVars, conn, boots, ev, cfg, closeCalls>>

\* what an engine probe can answer: [err, isReady]
ServerAnswers ==
    { [err |-> ErrInternal, isReady |-> FALSE],
      [err |-> NoErr, isReady |-> TRUE],
      [err |-> NoErr, isReady |-> FALSE] }

\* fgaServer.IsReady; once ready, fga.Server = fgaServer
ServerProbe ==
    /\ pc = "srvProbe" /\ kind = "openfga"
    /\ io' = io \cup {"serverProbe"}
    /\ \E o \in ServerAnswers :
          /\ ev' = [call |-> "serverProbe", err |-> o.err, isReady |-> o.isReady]
          /\ IF ProbeFailed(o.err)
             THEN /\ Finish(fga, Wrap(o.err,
                         <<"error", "checking", "OpenFGA", "server", "readiness">>))
                  /\ fault' = TRUE
             ELSE /\ IF o.isReady
                     THEN Goto([fga EXCEPT !.Server = "srv"], "listStores")
                     ELSE Goto(fga, "srvWait")
                  /\ UNCHANGED fault
    /\ UNCHANGED <<dbVars, apiVars, kind, sideVars, conn, srv, boots, cfg, closeCalls>>

ServerWait ==
    /\ pc = "srvWait" /\ kind = "openfga"
    /\ WaitStep("srvProbe", <<"OpenFGA", "server">>)
    /\ UNCHANGED <<dbVars, apiVars, kind, sideVars, conn, srv, boots, io, cfg, closeCalls>>

\* fga.Server.ListStores by name, and the found branch
LookupStore ==
    /\ pc = "listStores" /\ kind = "openfga"
    /\ io' = io \cup {"listStores"}
    /\ \/ /\ Finish(fga, Wrap(ErrInternal, <<"failed", "to", "list", "stores">>))
          /\ fault' = TRUE
       \/ /\ LET list == EngineListStores(stores, fga.StoreName)
             IN IF StoreMissing(list)
                THEN Goto(fga, "createStore")
                ELSE Goto([fga EXCEPT !.StoreID = list[1].id], "readFile")
          /\ UNCHANGED fault
    /\ UNCHANGED <<dbVars, apiVars, kind, sideVars, conn, srv, boots, ev, cfg,
                   closeCalls>>

\* fga.Server.CreateStore
CreateStore ==
    /\ pc = "createStore" /\ kind = "openfga"
    /\ io' = io \cup {"createStore"}
    /\ \/ /\ Finish(fga, Wrap(ErrInternal, <<"failed", "to", "create", "store">>))
          /\ fault' = TRUE
          /\ UNCHANGED <<stores, nextId>>
       \/ /\ stores' = Append(stores, [id |-> nextId, name |-> fga.StoreName])
          /\ nextId' = nextId + 1
          /\ Goto([fga EXCEPT !.StoreID = nextId], "readFile")
          /\ UNCHANGED fault
    /\ UNCHANGED <<schema, models, tuples, apiVars, kind, sideVars, conn, srv, boots, ev, cfg, closeCalls>>

\* os.ReadFile of the model file, then parser.TransformDSLToProto
ReadModelFile ==
    /\ pc = "readFile" /\ kind = "openfga"
    /\ \/ /\ Finish(fga, Wrap(ErrInternal, <<"failed", "to", "read", "model", "file">>))
          /\ fault' = TRUE
          /\ io' = io \cup {"readFile"}
       \/ /\ Finish(fga, Wrap(NewError("parse", <<"syntax", "error">>),
                   <<"failed", "to", "transform", "DSL", "to", "OpenFGA", "model">>))
          /\ fault' = TRUE
          /\ io' = io \cup {"readFile", "parse"}
       \/ \E dsl \in DSLs :
             /\ model' = dsl
             /\ Move(fga, "readModels")
             /\ io' = io \cup {"readFile", "parse"}
             /\ UNCHANGED <<report, elapsed, fault>>
    /\ UNCHANGED <<dbVars, apiVars, kind, sideVars, conn, srv, boots, ev, cfg,
                   closeCalls>>

\* fga.Server.ReadAuthorizationModels, and the found branch
LookupModel ==
    /\ pc = "readModels" /\ kind = "openfga"
    /\ io' = io \cup {"readModels"}
    /\ \/ /\ Finish(fga, Wrap(ErrInternal, <<"failed", "to", "read", "authorization", "models">>))
          /\ fault' = TRUE
       \/ /\ LET list == EngineReadModels(models, fga.StoreID)
             IN IF ModelMissing(list)
                THEN Goto(fga, "writeModel")
                ELSE Goto([fga EXCEPT !.AuthorizationModelID = list[1].id], "seed")
          /\ UNCHANGED fault
    /\ UNCHANGED <<dbVars, apiVars, kind, sideVars, conn, srv, boots, ev, cfg,
                   closeCalls>>

\* fga.Server.WriteAuthorizationModel (the engine lists the latest model first)
WriteModel ==
    /\ pc = "writeModel" /\ kind = "openfga"
    /\ io' = io \cup {"writeModel"}
    /\ \/ /\ Finish(fga, Wrap(ErrInternal, <<"failed", "to", "write", "authorization", "model">>))
          /\ fault' = TRUE
          /\ UNCHANGED <<models, nextId>>
       \/ /\ models' = <<[id |-> nextId, store |-> fga.StoreID, dsl |-> model]>> \o models
          /\ nextId' = nextId + 1
          /\ Goto([fga EXCEPT !.AuthorizationModelID = nextId], "seed")
          /\ UNCHANGED fault
    /\ UNCHANGED <<schema, stores, tuples, apiVars, kind, sideVars, conn, srv, boots, ev, cfg, closeCalls>>

\* what a Check/Write/Close call leaves in `last`
WriteRecord(via, t, ignoreExisting, o) ==
    [op |-> "Write", via |-> via, t |-> t, ignoreExisting |-> ignoreExisting,
     ret |-> o.ret, ecalls |-> o.ecalls, eerr |-> o.eerr, before |-> tuples,
     engine |-> srv]

\* fga.Write(ctx, fga.InitialTuples, true), then `return fga, nil`
SeedTuples ==
    /\ pc = "seed" /\ kind = "openfga"
    /\ io' = io \cup {"write"}
    /\ \E o \in Write(fga, tuples, fga.InitialTuples, TRUE) :
          /\ tuples' = o.tuples
          /\ last' = WriteRecord("NewOpenFGA", fga.InitialTuples, TRUE, o)
          /\ fault' = (fault \/ o.eerr \in WriteFaults)
          /\ Finish(fga, IF o.ret # NoErr
                         THEN Wrap(o.ret, <<"failed", "to", "write", "tuples", "to", "OpenFGA">>)
                         ELSE NoErr)
    /\ UNCHANGED <<schema, stores, models, nextId, calls, kind, sideVars, conn, srv, boots, ev, cfg, closeCalls>>

----------------------------------------------------------------------------
\* The calls on a handle NewOpenFGA returned

\* OpenFGAServer.Close invokes the engine's Close when the reference is set
CloseInvokes(f) == f.Server # NULL

CallCheck(t) ==
    /\ pc = "ready" /\ kind = "openfga" /\ calls < MaxCalls
    /\ calls' = calls + 1
    /\ \E o \in Check(fga, tuples, t) :
          last' = [op |-> "Check", t |-> t, ret |-> [allowed |-> o.allowed, err |-> o.err],
                   ecalls |-> << [StoreId |-> fga.StoreID,
                                  AuthorizationModelId |-> fga.AuthorizationModelID,
                                  TupleKey |-> NewTupleKey(t)] >>,
                   eerr |-> o.eerr, eallowed |-> o.eallowed, before |-> tuples,
                   engine |-> srv]
    /\ UNCHANGED <<dbVars, pc, kind, sideVars, fga, conn, srv, model, report, elapsed, boots, migrations, ev, io,
                   ret, firstIds, cfg, fault, closeCalls>>

CallWrite(t, ignoreExisting) ==
    /\ pc = "ready" /\ kind = "openfga" /\ calls < MaxCalls
    /\ calls' = calls + 1
    /\ \E o \in Write(fga, tuples, t, ignoreExisting) :
          /\ tuples' = o.tuples
          /\ last' = WriteRecord("caller", t, ignoreExisting, o)
    /\ UNCHANGED <<schema, stores, models, nextId, pc, kind, sideVars, fga, conn, srv, model,
                   report, elapsed, boots, migrations, ev, io, ret, firstIds, cfg, fault, closeCalls>>

CallClose ==
    /\ pc = "ready" /\ kind = "openfga" /\ calls < MaxCalls
    /\ calls' = calls + 1
    /\ IF CloseInvokes(fga)
       THEN srv' = "closed" /\ closeCalls' = closeCalls + 1
       ELSE UNCHANGED <<srv, closeCalls>>
    /\ last' = [op |-> "Close", ret |-> NoErr, invoked |-> CloseInvokes(fga),
                engine |-> srv]
    /\ UNCHANGED <<dbVars, pc, kind, sideVars, fga, conn, model, report, elapsed, boots, migrations, ev, io, ret,
                   firstIds, cfg, fault>>

----------------------------------------------------------------------------
\* NewEmbeddedSqlite (fgaclient), over NewSqliteServer and newSqliteStore (embeddfga)

FinishConn(c, err) ==
    /\ pc' = IF err = NoErr THEN "ready" ELSE "failed"
    /\ ret' = Return(err)
    /\ conn' = IF err = NoErr THEN c ELSE ZeroConn
    /\ firstIds' = IF err = NoErr /\ firstIds[c.storeName] = NoIds
                   THEN [firstIds EXCEPT ![c.storeName] =
                            Ids(c.storeID, c.authorizationModelID)]
                   ELSE firstIds
    /\ model' = "" /\ report' = NoReport /\ elapsed' = 0 /\ migrations' = 0

MoveConn(c, next) ==
    /\ pc' = next
    /\ conn' = c
    /\ UNCHANGED <<ret, firstIds, migrations>>

GotoConn(c, next) ==
    /\ MoveConn(c, next)
    /\ UNCHANGED <<model, report, elapsed>>

\* (mutant) an error return that leaves the engine as it is
DeferredCloseSkipped == UNCHANGED <<srv, closeCalls>>

\* the deferred fgaServer.Close() of NewEmbeddedSqlite, on an error return
DeferredClose ==
    /\ srv' = "closed"
    /\ closeCalls' = closeCalls + 1

\* a process starts and calls NewEmbeddedSqlite; the store names are the ones
\* the engine accepts
NewEmbeddedSqlite(datastoreURI, storeName) ==
    /\ pc \in {"idle", "ready", "failed"}
    /\ boots < MaxBoots
    /\ boots' = boots + 1
    /\ kind' = "embedded"
    /\ srv' = "none" /\ closeCalls' = 0 /\ calls' = 0 /\ last' = NoCall
    /\ fga' = ZeroFga
    /\ io' = {} /\ fault' = FALSE
    /\ ev' = NoEvent
    /\ cfg' = IF datastoreURI = "" THEN "invalid" ELSE "valid"
    /\ IF datastoreURI = ""
       THEN FinishConn(ZeroConn, NewError("argument", <<"datastoreURI", "cannot", "be", "empty">>))
       ELSE /\ pc' = "eOpen"
            /\ conn' = [ZeroConn EXCEPT !.storeName = storeName]
            /\ ret' = NoRet
            /\ UNCHANGED <<firstIds, model, report, elapsed, migrations>>
    /\ UNCHANGED <<dbVars, sideVars>>

\* newSqliteStore: sqlite.New
SqliteOpen ==
    /\ pc = "eOpen" /\ kind = "embedded"
    /\ io' = io \cup {"open"}
    /\ \/ /\ GotoConn(conn, "eProbe")
          /\ UNCHANGED fault
       \/ /\ FinishConn(conn, Wrap(ErrInternal, <<"failed", "to", "create", "datastore">>))
          /\ fault' = TRUE
    /\ UNCHANGED <<dbVars, apiVars, kind, sideVars, fga, srv, boots, ev, cfg,
                   closeCalls>>

\* (mutant) a first probe whose ready answer is never taken
ReadyNever(o) == FALSE

\* `err == nil && r.IsReady` after the first ds.IsReady
ReadyNow(o) == ~ProbeFailed(o.err) /\ o.r.IsReady

\* newSqliteStore: the first ds.IsReady and the branch on its answer
SqliteProbe ==
    /\ pc = "eProbe" /\ kind = "embedded"
    /\ io' = io \cup {"probe"}
    /\ \E o \in ProbeAnswers(schema) :
          /\ ev' = [call |-> "probe", err |-> o.err, report |-> o.r]
          /\ IF ReadyNow(o)
             THEN /\ MoveConn(conn, "eNewServer")
                  /\ report' = o.r
                  /\ UNCHANGED <<model, elapsed, fault>>
             ELSE IF ProbeFailed(o.err)
             THEN /\ FinishConn(conn, Wrap(o.err,
                         <<"error", "waiting", "for", "datastore", "to", "be", "ready">>))
                  /\ fault' = TRUE
             ELSE IF ~o.r.IsReady /\ NeedsMigration(o.r)
             THEN /\ MoveConn(conn, "eMigrate")
                  /\ report' = o.r
                  /\ UNCHANGED <<model, elapsed, fault>>
             ELSE /\ FinishConn(conn, NewError("notready", <<"datastore", "is", "not", "ready">>))
                  /\ fault' = TRUE
    /\ UNCHANGED <<dbVars, apiVars, kind, sideVars, fga, srv, boots, cfg, closeCalls>>

\* newSqliteStore: migrate.RunMigrations
SqliteMigrate ==
    /\ pc = "eMigrate" /\ kind = "embedded"
    /\ io' = io \cup {"migrate"}
    /\ \E err \in {NoErr, ErrInternal} :
          /\ schema' \in RunMigrations(schema, err)
          /\ ev' = [call |-> "migrate", err |-> err]
          /\ IF MigrateFailed(err)
             THEN /\ FinishConn(conn, Wrap(err, <<"failed", "to", "run", "migrations">>))
                  /\ fault' = TRUE
             ELSE /\ pc' = "eProbe2"
                  /\ migrations' = migrations + 1
                  /\ UNCHANGED <<conn, ret, firstIds, model, report, elapsed, fault>>
    /\ UNCHANGED <<stores, models, tuples, nextId, apiVars, kind, sideVars, fga, srv, boots, cfg, closeCalls>>

\* newSqliteStore: the second ds.IsReady, after the migration
SqliteProbeAgain ==
    /\ pc = "eProbe2" /\ kind = "embedded"
    /\ io' = io \cup {"probe"}
    /\ \E o \in ProbeAnswers(schema) :
          /\ ev' = [call |-> "probe", err |-> o.err, report |-> o.r]
          /\ IF ProbeFailed(o.err)
             THEN /\ FinishConn(conn, Wrap(o.err,
                         <<"error", "waiting", "for", "datastore", "to", "be", "ready">>))
                  /\ fault' = TRUE
             ELSE IF ~o.r.IsReady
             THEN /\ FinishConn(conn, NewError("notready", <<"datastore", "is", "not", "ready">>))
                  /\ fault' = TRUE
             ELSE /\ MoveConn(conn, "eNewServer")
                  /\ report' = o.r
                  /\ UNCHANGED <<model, elapsed, fault>>
    /\ UNCHANGED <<dbVars, apiVars, kind, sideVars, fga, srv, boots, cfg, closeCalls>>

\* NewSqliteServer: server.NewServerWithOpts
NewSqliteServer ==
    /\ pc = "eNewServer" /\ kind = "embedded"
    /\ io' = io \cup {"newServer"}
    /\ \/ /\ srv' = "running"
          /\ GotoConn(conn, "eListStores")
          /\ UNCHANGED fault
       \/ /\ FinishConn(conn, Wrap(ErrInternal, <<"failed", "to", "initialize", "OpenFGA", "server">>))
          /\ fault' = TRUE
          /\ UNCHANGED srv
    /\ UNCHANGED <<dbVars, apiVars, kind, sideVars, fga, boots, ev, cfg, closeCalls>>

\* fgaServer.ListStores by name, and the found branch
ConnLookupStore ==
    /\ pc = "eListStores" /\ kind = "embedded"
    /\ io' = io \cup {"listStores"}
    /\ \/ /\ FinishConn(conn, Wrap(ErrInternal, <<"failed", "to", "list", "stores">>))
          /\ fault' = TRUE
          /\ DeferredClose
       \/ /\ LET list == EngineListStores(stores, conn.storeName)
             IN IF StoreMissing(list)
                THEN GotoConn(conn, "eCreateStore")
                ELSE GotoConn([conn EXCEPT !.storeID = list[1].id], "eParse")
          /\ UNCHANGED <<fault, srv, closeCalls>>
    /\ UNCHANGED <<dbVars, apiVars, kind, sideVars, fga, boots, ev, cfg>>

\* fgaServer.CreateStore
ConnCreateStore ==
    /\ pc = "eCreateStore" /\ kind = "embedded"
    /\ io' = io \cup {"createStore"}
    /\ \/ /\ FinishConn(conn, Wrap(ErrInternal, <<"failed", "to", "create", "store">>))
          /\ fault' = TRUE
          /\ DeferredClose
          /\ UNCHANGED <<stores, nextId>>
       \/ /\ stores' = Append(stores, [id |-> nextId, name |-> conn.storeName])
          /\ nextId' = nextId + 1
          /\ GotoConn([conn EXCEPT !.storeID = nextId], "eParse")
          /\ UNCHANGED <<fault, srv, closeCalls>>
    /\ UNCHANGED <<schema, models, tuples, apiVars, kind, sideVars, fga, boots, ev, cfg>>

\* parser.TransformDSLToProto(string(modelData)); the argument modelData is
\* read here for the first time
ConnParseModel ==
    /\ pc = "eParse" /\ kind = "embedded"
    /\ \/ /\ FinishConn(conn, Wrap(NewError("parse", <<"syntax", "error">>),
                   <<"failed", "to", "transform", "DSL", "to", "OpenFGA", "model">>))
          /\ fault' = TRUE
          /\ DeferredClose
       \/ \E dsl \in DSLs :
             /\ model' = dsl
             /\ MoveConn(conn, "eReadModels")
             /\ UNCHANGED <<report, elapsed, fault, srv, closeCalls>>
    /\ UNCHANGED <<dbVars, apiVars, kind, sideVars, fga, boots, ev, io, cfg>>

\* fgaServer.ReadAuthorizationModels, and the found branch; then the return
ConnLookupModel ==
    /\ pc = "eReadModels" /\ kind = "embedded"
    /\ io' = io \cup {"readModels"}
    /\ \/ /\ FinishConn(conn, Wrap(ErrInternal, <<"failed", "to", "read", "authorization", "models">>))
          /\ fault' = TRUE
          /\ DeferredClose
       \/ /\ LET list == EngineReadModels(models, conn.storeID)
             IN IF ModelMissing(list)
                THEN GotoConn(conn, "eWriteModel")
                ELSE FinishConn([conn EXCEPT !.authorizationModelID = list[1].id,
                                             !.fgaServer = "srv"], NoErr)
          /\ UNCHANGED <<fault, srv, closeCalls>>
    /\ UNCHANGED <<dbVars, apiVars, kind, sideVars, fga, boots, ev, cfg>>

\* fgaServer.WriteAuthorizationModel; then the return
ConnWriteModel ==
    /\ pc = "eWriteModel" /\ kind = "embedded"
    /\ io' = io \cup {"writeModel"}
    /\ \/ /\ FinishConn(conn, Wrap(ErrInternal, <<"failed", "to", "write", "the", "authorization", "model">>))
          /\ fault' = TRUE
          /\ DeferredClose
          /\ UNCHANGED <<models, nextId>>
       \/ /\ models' = <<[id |-> nextId, store |-> conn.storeID, dsl |-> model]>> \o models
          /\ nextId' = nextId + 1
          /\ FinishConn([conn EXCEPT !.authorizationModelID = nextId,
                                     !.fgaServer = "srv"], NoErr)
          /\ UNCHANGED <<fault, srv, closeCalls>>
    /\ UNCHANGED <<schema, stores, tuples, apiVars, kind, sideVars, fga, boots, ev, cfg>>

----------------------------------------------------------------------------
\* The calls on a handle NewEmbeddedSqlite returned

\* Conn.Close: c.fgaServer.Close()
ConnClose ==
    /\ pc = "ready" /\ kind = "embedded" /\ calls < MaxCalls
    /\ calls' = calls + 1
    /\ srv' = "closed"
    /\ closeCalls' = closeCalls + 1
    /\ last' = [op |-> "Close", ret |-> NoErr, invoked |-> TRUE, engine |-> srv]
    /\ UNCHANGED <<dbVars, pc, kind, sideVars, fga, conn, model, report, elapsed, boots, migrations, ev, io, ret,
                   firstIds, cfg, fault>>

\* Conn.AddTuples. The outcomes: [ret, tuples, ecalls, eerr]
AddTuples(c, tup, tpls) ==
    LET tupleKeys == [i \in 1..Len(tpls) |-> NewTupleKey(tpls[i])]
    IN { [ret |-> IF o.err # NoErr
                  THEN Wrap(o.err, <<"failed", "to", "write", "tuple", "to", "OpenFGA">>)
                  ELSE NoErr,
          tuples |-> o.tuples, ecalls |-> o.ecalls, eerr |-> o.err] :
         o \in WriteCalls(tup, c.storeID, c.authorizationModelID, tupleKeys) }

ConnAddTuples(tpls) ==
    /\ pc = "ready" /\ kind = "embedded" /\ calls < MaxCalls
    /\ calls' = calls + 1
    /\ \E o \in AddTuples(conn, tuples, tpls) :
          /\ tuples' = o.tuples
          /\ last' = [op |-> "AddTuples", t |-> tpls, ret |-> o.ret, ecalls |-> o.ecalls,
                      eerr |-> o.eerr, before |-> tuples, engine |-> srv]
    /\ UNCHANGED <<schema, stores, models, nextId, pc, kind, sideVars, fga, conn, srv, model,
                   report, elapsed, boots, migrations, ev, io, ret, firstIds, cfg, fault, closeCalls>>

\* Conn.Check
ConnCheck(t) ==
    /\ pc = "ready" /\ kind = "embedded" /\ calls < MaxCalls
    /\ calls' = calls + 1
    /\ \E o \in EngineCheck(tuples, conn.storeID, NewTupleKey(t)) :
          last' = [op |-> "ConnCheck", t |-> t,
                   ret |-> [allowed |-> IF o.err # NoErr THEN FALSE ELSE o.allowed,
                            err |-> IF o.err # NoErr
                                    THEN Wrap(o.err, <<"failed", "to", "check", "tuple", "in", "OpenFGA">>)
                                    ELSE NoErr],
                   ecalls |-> << [StoreId |-> conn.storeID,
                                  AuthorizationModelId |-> conn.authorizationModelID,
                                  TupleKey |-> NewTupleKey(t)] >>,
                   eerr |-> o.err, eallowed |-> o.allowed, before |-> tuples,
                   engine |-> srv]
    /\ UNCHANGED <<dbVars, pc, kind, sideVars, fga, conn, srv, model, report, elapsed, boots, migrations, ev, io,
                   ret, firstIds, cfg, fault, closeCalls>>

----------------------------------------------------------------------------
\* Concurrency: what runs beside the one process above

Racers == 1..2
Goroutines == 1..2

NoRacer == [pc |-> "idle"]
NoFlight == [pc |-> "idle"]
NoRequest == [route |-> "none"]

\* the handles one process constructs
Handles == 1..2

\* `MaxEvaluationCost: 100` of the struct literal in NewOpenFGA
DefaultCost == 100

\* the global key before any viper.Set
Unset == 0

NoHandle == [pc |-> "none", MaxEvaluationCost |-> 0, evaluated |-> FALSE, limit |-> 0]

----------------------------------------------------------------------------
\* The specification: a fresh datastore file, and processes that start one
\* after the other, each calling one constructor and then using the handle

Init ==
    /\ schema = FALSE
    /\ stores = <<>>
    /\ models = <<>>
    /\ tuples = {}
    /\ nextId = 1
    /\ pc = "idle"
    /\ kind = "openfga"
    /\ fga = ZeroFga
    /\ conn = ZeroConn
    /\ srv = "none"
    /\ model = ""
    /\ report = NoReport
    /\ elapsed = 0
    /\ boots = 0
    /\ calls = 0
    /\ io = {}
    /\ ret = NoRet
    /\ last = NoCall
    /\ firstIds = [n \in StoreNames |-> NoIds]
    /\ cfg = "valid"
    /\ fault = FALSE
    /\ closeCalls = 0
    /\ migrations = 0
    /\ ev = NoEvent
    /\ racer = [i \in Racers |-> NoRacer]
    /\ inflight = [i \in Goroutines |-> NoFlight]
    /\ web = NoRequest
    /\ viper = Unset
    /\ handles = [h \in Handles |-> NoHandle]

Next ==
    \/ \E uri \in DataStoreURIs, opts \in OptionSets : NewOpenFGA(uri, opts)
    \/ OpenDatastore
    \/ DatastoreProbe
    \/ Migrate
    \/ DatastoreWait
    \/ NewServer
    \/ ServerProbe
    \/ ServerWait
    \/ LookupStore
    \/ CreateStore
    \/ ReadModelFile
    \/ LookupModel
    \/ WriteModel
    \/ SeedTuples
    \/ \E t \in Facts : CallCheck(t)
    \/ \E t \in Batches, ignoreExisting \in BOOLEAN : CallWrite(t, ignoreExisting)
    \/ CallClose
    \/ \E uri \in {"", "openfga.db"}, name \in StoreNames : NewEmbeddedSqlite(uri, name)
    \/ SqliteOpen
    \/ SqliteProbe
    \/ SqliteMigrate
    \/ SqliteProbeAgain
    \/ NewSqliteServer
    \/ ConnLookupStore
    \/ ConnCreateStore
    \/ ConnParseModel
    \/ ConnLookupModel
    \/ ConnWriteModel
    \/ ConnClose
    \/ \E tpls \in Batches : ConnAddTuples(tpls)
    \/ \E t \in Facts : ConnCheck(t)

Spec == Init /\ [][Next]_vars

\* A cold store and collaborators that do their part: the configuration is
\* valid, no collaborator call fails, the datastore asks for migrations until
\* one has run and is ready from then on, and the engine is ready when probed
Cooperative ==
    /\ cfg' = "valid"
    /\ fault' => ev'.call = "timeout"
    /\ pc \in {"dsProbe", "eProbe", "eProbe2", "pgProbe"} =>
           ev'.report = (IF schema THEN ReadyReport ELSE MigrateReport)
    /\ pc \in {"migrate", "eMigrate", "pgMigrate"} => schema'
    /\ pc = "srvProbe" => ev'.isReady

Bootstrap ==
    \/ \E uri \in DataStoreURIs, opts \in OptionSets : NewOpenFGA(uri, opts)
    \/ OpenDatastore
    \/ DatastoreProbe
    \/ Migrate
    \/ DatastoreWait
    \/ NewServer
    \/ ServerProbe
    \/ LookupStore
    \/ CreateStore
    \/ ReadModelFile
    \/ LookupModel
    \/ WriteModel
    \/ SeedTuples
    \/ \E uri \in {"", "openfga.db"}, name \in StoreNames : NewEmbeddedSqlite(uri, name)
    \/ SqliteOpen
    \/ SqliteProbe
    \/ SqliteMigrate
    \/ SqliteProbeAgain
    \/ NewSqliteServer
    \/ ConnLookupStore
    \/ ConnCreateStore
    \/ ConnParseModel
    \/ ConnLookupModel
    \/ ConnWriteModel

ColdNext == Bootstrap /\ Cooperative

\* a constructor that was called keeps running until it returns
ColdSpec == Init /\ [][ColdNext]_vars /\ WF_vars(ColdNext)

----------------------------------------------------------------------------
\* The process that serves: NewOpenFGA has returned the handle over a store it
\* provisioned from nothing and seeded with the initial facts

Served(seed) ==
    LET keys == [i \in 1..Len(seed) |-> NewTupleKey(seed[i])]
    IN /\ schema = TRUE
       /\ stores = <<[id |-> 1, name |-> "acme"]>>
       /\ models = <<[id |-> 2, store |-> 1, dsl |-> "dslA"]>>
       /\ tuples = StoredKeys(1, keys)
       /\ nextId = 3
       /\ pc = "ready"
       /\ kind = "openfga"
       /\ fga = [Server |-> "srv", StoreName |-> "acme", StoreID |-> 1,
                 AuthorizationModelID |-> 2, AuthorizationModelName |-> "default",
                 InitialTuples |-> seed, ModelFile |-> "model.fga",
                 dataStoreURI |-> "file:openfga.db"]
       /\ conn = ZeroConn
       /\ srv = "running"
       /\ model = ""
       /\ report = NoReport
       /\ elapsed = 0
       /\ boots = 1
       /\ calls = 0
       /\ io = {"open", "probe", "migrate", "newServer", "serverProbe", "listStores",
                "createStore", "readFile", "parse", "readModels", "writeModel", "write"}
       /\ ret = Return(NoErr)
       /\ last = [op |-> "Write", via |-> "NewOpenFGA", t |-> seed,
                  ignoreExisting |-> TRUE, ret |-> NoErr,
                  ecalls |-> << [StoreId |-> 1, AuthorizationModelId |-> 2,
                                 TupleKeys |-> keys] >>,
                  eerr |-> NoErr, before |-> {}, engine |-> "running"]
       /\ firstIds = [n \in StoreNames |-> IF n = "acme" THEN Ids(1, 2) ELSE NoIds]
       /\ cfg = "valid"
       /\ fault = FALSE
       /\ closeCalls = 0
       /\ migrations = 0
       /\ ev = [call |-> "serverProbe", err |-> NoErr, isReady |-> TRUE]

----------------------------------------------------------------------------
\* The web server (cmd/main.go): the handlers of the protected routes, each
\* one request from the cookie to the response

\* INITIAL_TUPLES: the administrator
Admins == << [Object |-> "app:auth", Relation |-> "admin", User |-> "user:alice"] >>

\* c.Cookie("user"): http.ErrNoCookie, or the value
NoCookie == [present |-> FALSE, value |-> ""]
Cookies == {NoCookie} \cup { [present |-> TRUE, value |-> u] : u \in {"", "alice", "bob"} }

DocIDs == {"1", "2"}

\* the form of POST /admin/add-tuple: document, relation, user
Forms == [document : DocIDs, relation : {"viewer", "editor"}, user : {"alice", "bob"}]

\* tuple.NewCheckRequestTupleKey(object, relation, user)
NewCheckRequestTupleKey(object, relation, user) ==
    [object |-> object, relation |-> relation, user |-> user]

\* c.HTML(status, template, ...), c.Redirect(status, location)
AuthError == [status |-> 401, page |-> "auth-error.tmpl"]
Page(template) == [status |-> 200, page |-> template]
WriteError == [status |-> 500, page |-> "error.tmpl"]
Redirect == [status |-> 303, page |-> "/documents"]

\* what a handler leaves in `web`: the request, the engine's answer to the
\* Check and to the Write if they were issued, and the response
Handled(route, cookie, arg, check, write, response) ==
    [route |-> route, cookie |-> cookie, arg |-> arg, check |-> check,
     write |-> write, response |-> response, before |-> tuples]

\* (mutant) an enforcement point that lets the request through when the
\* Check failed
DeniedUnlessError(o) == o.err = NoErr /\ ~o.allowed

\* the enforcement point: `if err1 != nil { ... return }` and
\* `if !v.GetAllowed() { ... return }`
Denied(o) == o.err # NoErr \/ ~o.allowed

\* the decision point: Server.Check with the handle's StoreID and model id.
\* The outcomes: [key, allowed, err]
Decide(key) ==
    { [key |-> key, allowed |-> o.allowed, err |-> o.err] :
      o \in EngineCheck(tuples, fga.StoreID, key) }

webFrame ==
    <<schema, stores, models, nextId, pc, kind, fga, conn, srv, model, report,
      elapsed, boots, calls, io, ret, last, firstIds, cfg, fault, closeCalls,
      migrations, ev, racer, inflight, viper, handles>>

\* GET /document/:docID/view
DocumentView(docID, cookie) ==
    /\ pc = "ready" /\ kind = "openfga"
    /\ IF ~cookie.present
       THEN web' = Handled("view", cookie, docID, <<>>, <<>>, AuthError)
       ELSE \E o \in Decide(NewCheckRequestTupleKey("document:" \o docID, "viewer",
                                                     "user:" \o cookie.value)) :
               web' = Handled("view", cookie, docID, <<o>>, <<>>,
                              IF Denied(o) THEN AuthError ELSE Page("document.tmpl"))
    /\ UNCHANGED <<webFrame, tuples>>

\* GET /document/:docID/edit
DocumentEdit(docID, cookie) ==
    /\ pc = "ready" /\ kind = "openfga"
    /\ IF ~cookie.present
       THEN web' = Handled("edit", cookie, docID, <<>>, <<>>, AuthError)
       ELSE \E o \in Decide(NewCheckRequestTupleKey("document:" \o docID, "editor",
                                                     "user:" \o cookie.value)) :
               web' = Handled("edit", cookie, docID, <<o>>, <<>>,
                              IF Denied(o) THEN AuthError ELSE Page("document.tmpl"))
    /\ UNCHANGED <<webFrame, tuples>>

\* GET /admin
AdminPanel(cookie) ==
    /\ pc = "ready" /\ kind = "openfga"
    /\ IF ~cookie.present \/ cookie.value = ""
       THEN web' = Handled("admin", cookie, "", <<>>, <<>>, AuthError)
       ELSE \E o \in Decide(NewCheckRequestTupleKey("app:auth", "admin",
                                                     "user:" \o cookie.value)) :
               web' = Handled("admin", cookie, "", <<o>>, <<>>,
                              IF Denied(o) THEN AuthError ELSE Page("admin.tmpl"))
    /\ UNCHANGED <<webFrame, tuples>>

\* POST /admin/add-tuple
AddTuple(form, cookie) ==
    /\ pc = "ready" /\ kind = "openfga"
    /\ Cardinality(tuples) < MaxFacts
    /\ IF ~cookie.present \/ cookie.value = ""
       THEN /\ web' = Handled("add-tuple", cookie, form, <<>>, <<>>, AuthError)
            /\ UNCHANGED tuples
       ELSE \E o \in Decide(NewCheckRequestTupleKey("app:auth", "admin",
                                                     "user:" \o cookie.value)) :
               IF Denied(o)
               THEN /\ web' = Handled("add-tuple", cookie, form, <<o>>, <<>>, AuthError)
                    /\ UNCHANGED tuples
               ELSE LET keys == << NewTupleKey([Object |-> "document:" \o form.document,
                                                Relation |-> form.relation,
                                                User |-> "user:" \o form.user]) >>
                    IN \E w \in EngineWrite(tuples, fga.StoreID, keys) :
                          /\ tuples' = w.tuples
                          /\ web' = Handled("add-tuple", cookie, form, <<o>>,
                                            << [keys |-> keys, err |-> w.err] >>,
                                            IF w.err # NoErr THEN WriteError ELSE Redirect)
    /\ UNCHANGED webFrame

WebInit ==
    /\ Served(Admins)
    /\ racer = [i \in Racers |-> NoRacer]
    /\ inflight = [i \in Goroutines |-> NoFlight]
    /\ web = NoRequest
    /\ viper = Unset
    /\ handles = [h \in Handles |-> NoHandle]

WebNext ==
    \/ \E docID \in DocIDs, cookie \in Cookies : DocumentView(docID, cookie)
    \/ \E docID \in DocIDs, cookie \in Cookies : DocumentEdit(docID, cookie)
    \/ \E cookie \in Cookies : AdminPanel(cookie)
    \/ \E form \in Forms, cookie \in Cookies : AddTuple(form, cookie)

WebSpec == WebInit /\ [][WebNext]_vars

----------------------------------------------------------------------------
\* Two processes that bootstrap at the same time: each has its own handle and
\* its own engine over the one backing store, and runs the provisioning steps
\* of NewOpenFGA (ListStores to the seeding Write) with the same store name

RaceStoreName == "acme"
RaceTuples == << [Object |-> "document:1", Relation |-> "editor", User |-> "user:alice"] >>

\* the handle of racer p, as Check and Write take it
RacerFga(r) ==
    [ZeroFga EXCEPT !.Server = "srv", !.StoreName = RaceStoreName,
                    !.StoreID = r.StoreID,
                    !.AuthorizationModelID = r.AuthorizationModelID,
                    !.InitialTuples = RaceTuples]

raceFrame ==
    <<schema, pc, kind, fga, conn, srv, model, report, elapsed, boots, calls, io,
      ret, last, firstIds, cfg, fault, closeCalls, migrations, ev, inflight, web,
      viper, handles>>

RacerFail(p) == racer' = [racer EXCEPT ![p].pc = "failed"]

\* the engine of process p is ready: provisioning begins
RacerBegin(p) ==
    /\ racer[p].pc = "idle"
    /\ racer' = [racer EXCEPT ![p] =
                   [pc |-> "listStores", StoreID |-> EmptyId,
                    AuthorizationModelID |-> EmptyId, model |-> "",
                    sawStores |-> 0, sawModels |-> 0]]
    /\ UNCHANGED <<raceFrame, stores, models, tuples, nextId>>

\* fga.Server.ListStores by name, and the found branch
RacerLookupStore(p) ==
    /\ racer[p].pc = "listStores"
    /\ \/ RacerFail(p)
       \/ LET list == EngineListStores(stores, RaceStoreName)
          IN racer' = [racer EXCEPT
                 ![p].sawStores = Len(list),
                 ![p].StoreID = IF StoreMissing(list) THEN EmptyId ELSE list[1].id,
                 ![p].pc = IF StoreMissing(list) THEN "createStore" ELSE "readFile"]
    /\ UNCHANGED <<raceFrame, stores, models, tuples, nextId>>

\* fga.Server.CreateStore
RacerCreateStore(p) ==
    /\ racer[p].pc = "createStore"
    /\ \/ /\ RacerFail(p)
          /\ UNCHANGED <<stores, nextId>>
       \/ /\ stores' = Append(stores, [id |-> nextId, name |-> RaceStoreName])
          /\ nextId' = nextId + 1
          /\ racer' = [racer EXCEPT ![p].StoreID = nextId, ![p].pc = "readFile"]
    /\ UNCHANGED <<raceFrame, models, tuples>>

\* os.ReadFile of the model file, then parser.TransformDSLToProto
RacerReadModelFile(p) ==
    /\ racer[p].pc = "readFile"
    /\ \/ RacerFail(p)
       \/ \E dsl \in DSLs :
             racer' = [racer EXCEPT ![p].model = dsl, ![p].pc = "readModels"]
    /\ UNCHANGED <<raceFrame, stores, models, tuples, nextId>>

\* fga.Server.ReadAuthorizationModels, and the found branch
RacerLookupModel(p) ==
    /\ racer[p].pc = "readModels"
    /\ \/ RacerFail(p)
       \/ LET list == EngineReadModels(models, racer[p].StoreID)
          IN racer' = [racer EXCEPT
                 ![p].sawModels = Len(list),
                 ![p].AuthorizationModelID =
                      IF ModelMissing(list) THEN EmptyId ELSE list[1].id,
                 ![p].pc = IF ModelMissing(list) THEN "writeModel" ELSE "seed"]
    /\ UNCHANGED <<raceFrame, stores, models, tuples, nextId>>

\* fga.Server.WriteAuthorizationModel (the engine lists the latest model first)
RacerWriteModel(p) ==
    /\ racer[p].pc = "writeModel"
    /\ \/ /\ RacerFail(p)
          /\ UNCHANGED <<models, nextId>>
       \/ /\ models' = <<[id |-> nextId, store |-> racer[p].StoreID,
                          dsl |-> racer[p].model]>> \o models
          /\ nextId' = nextId + 1
          /\ racer' = [racer EXCEPT ![p].AuthorizationModelID = nextId, ![p].pc = "seed"]
    /\ UNCHANGED <<raceFrame, stores, tuples>>

\* fga.Write(ctx, fga.InitialTuples, true), then `return fga, nil`
RacerSeedTuples(p) ==
    /\ racer[p].pc = "seed"
    /\ \E o \in Write(RacerFga(racer[p]), tuples, RaceTuples, TRUE) :
          /\ tuples' = o.tuples
          /\ racer' = [racer EXCEPT ![p].pc = IF o.ret # NoErr THEN "failed" ELSE "ready"]
    /\ UNCHANGED <<raceFrame, stores, models, nextId>>

\* the backing store is migrated and holds nothing: no process has come as far
\* as provisioning before
RaceInit ==
    /\ schema = TRUE
    /\ stores = <<>>
    /\ models = <<>>
    /\ tuples = {}
    /\ nextId = 1
    /\ pc = "idle"
    /\ kind = "openfga"
    /\ fga = ZeroFga
    /\ conn = ZeroConn
    /\ srv = "none"
    /\ model = ""
    /\ report = NoReport
    /\ elapsed = 0
    /\ boots = 0
    /\ calls = 0
    /\ io = {}
    /\ ret = NoRet
    /\ last = NoCall
    /\ firstIds = [n \in StoreNames |-> NoIds]
    /\ cfg = "valid"
    /\ fault = FALSE
    /\ closeCalls = 0
    /\ migrations = 0
    /\ ev = NoEvent
    /\ racer = [i \in Racers |-> NoRacer]
    /\ inflight = [i \in Goroutines |-> NoFlight]
    /\ web = NoRequest
    /\ viper = Unset
    /\ handles = [h \in Handles |-> NoHandle]

RaceNext ==
    \/ \E p \in Racers : RacerBegin(p)
    \/ \E p \in Racers : RacerLookupStore(p)
    \/ \E p \in Racers : RacerCreateStore(p)
    \/ \E p \in Racers : RacerReadModelFile(p)
    \/ \E p \in Racers : RacerLookupModel(p)
    \/ \E p \in Racers : RacerWriteModel(p)
    \/ \E p \in Racers : RacerSeedTuples(p)

RaceSpec == RaceInit /\ [][RaceNext]_vars

----------------------------------------------------------------------------
\* Goroutines that share one handle: each has at most one Check or Write in
\* flight, and one of them calls Close. A call reads the handle's fields and
\* hands the request to the engine; the engine answers it later

closeFrame ==
    <<schema, stores, models, nextId, pc, kind, fga, conn, model, report, elapsed,
      boots, calls, io, ret, last, firstIds, cfg, fault, migrations, ev, racer, web,
      viper, handles>>

\* fga.Check(ctx, t) is called: the request goes to the engine fga.Server
FlightCheck(g, t) ==
    /\ pc = "ready" /\ kind = "openfga"
    /\ inflight[g].pc = "idle"
    /\ inflight' = [inflight EXCEPT ![g] =
                      [pc |-> "engine", op |-> "Check", t |-> t, f |-> fga,
                       began |-> srv]]
    /\ UNCHANGED <<closeFrame, tuples, srv, closeCalls>>

\* fga.Write(ctx, t, ignoreExisting) is called
FlightWrite(g, t, ignoreExisting) ==
    /\ pc = "ready" /\ kind = "openfga"
    /\ inflight[g].pc = "idle"
    /\ inflight' = [inflight EXCEPT ![g] =
                      [pc |-> "engine", op |-> "Write", t |-> t,
                       ignoreExisting |-> ignoreExisting, f |-> fga, began |-> srv]]
    /\ UNCHANGED <<closeFrame, tuples, srv, closeCalls>>

\* the engine answers the Check, and Check returns
FlightCheckReturns(g) ==
    /\ inflight[g].pc = "engine" /\ inflight[g].op = "Check"
    /\ \E o \in Check(inflight[g].f, tuples, inflight[g].t) :
          inflight' = [inflight EXCEPT ![g] =
                         [pc |-> "done", op |-> "Check", t |-> inflight[g].t,
                          began |-> inflight[g].began, engine |-> srv,
                          ret |-> [allowed |-> o.allowed, err |-> o.err],
                          eerr |-> o.eerr, eallowed |-> o.eallowed,
                          ecalls |-> 1, before |-> tuples]]
    /\ UNCHANGED <<closeFrame, tuples, srv, closeCalls>>

\* the engine answers the Write, and Write returns
FlightWriteReturns(g) ==
    /\ inflight[g].pc = "engine" /\ inflight[g].op = "Write"
    /\ \E o \in Write(inflight[g].f, tuples, inflight[g].t, inflight[g].ignoreExisting) :
          /\ tuples' = o.tuples
          /\ inflight' = [inflight EXCEPT ![g] =
                            [pc |-> "done", op |-> "Write", t |-> inflight[g].t,
                             ignoreExisting |-> inflight[g].ignoreExisting,
                             began |-> inflight[g].began, engine |-> srv,
                             ret |-> o.ret, eerr |-> o.eerr,
                             ecalls |-> Len(o.ecalls), before |-> tuples]]
    /\ UNCHANGED <<closeFrame, srv, closeCalls>>

\* fga.Close() on another goroutine, once
FlightClose ==
    /\ pc = "ready" /\ kind = "openfga"
    /\ closeCalls = 0
    /\ IF CloseInvokes(fga)
       THEN srv' = "closed" /\ closeCalls' = closeCalls + 1
       ELSE UNCHANGED <<srv, closeCalls>>
    /\ UNCHANGED <<closeFrame, tuples, inflight>>

CloseInit ==
    /\ Served(RaceTuples)
    /\ racer = [i \in Racers |-> NoRacer]
    /\ inflight = [i \in Goroutines |-> NoFlight]
    /\ web = NoRequest
    /\ viper = Unset
    /\ handles = [h \in Handles |-> NoHandle]

CloseNext ==
    \/ \E g \in Goroutines, t \in Facts : FlightCheck(g, t)
    \/ \E g \in Goroutines, t \in Batches, ignoreExisting \in BOOLEAN :
          FlightWrite(g, t, ignoreExisting)
    \/ \E g \in Goroutines : FlightCheckReturns(g)
    \/ \E g \in Goroutines : FlightWriteReturns(g)
    \/ FlightClose

CloseSpec == CloseInit /\ [][CloseNext]_vars

----------------------------------------------------------------------------
\* NewOpenFGA alone, with collaborators that answer anything: every call of
\* a collaborator returns, so a constructor that was called takes its next step

Steps ==
    \/ OpenDatastore
    \/ DatastoreProbe
    \/ Migrate
    \/ DatastoreWait
    \/ NewServer
    \/ ServerProbe
    \/ ServerWait
    \/ LookupStore
    \/ CreateStore
    \/ ReadModelFile
    \/ LookupModel
    \/ WriteModel
    \/ SeedTuples

LiveNext ==
    \/ \E uri \in DataStoreURIs, opts \in OptionSets : NewOpenFGA(uri, opts)
    \/ OpenDatastore
    \/ DatastoreProbe
    \/ Migrate
    \/ DatastoreWait
    \/ NewServer
    \/ ServerProbe
    \/ ServerWait
    \/ LookupStore
    \/ CreateStore
    \/ ReadModelFile
    \/ LookupModel
    \/ WriteModel
    \/ SeedTuples

LiveSpec == Init /\ [][LiveNext]_vars /\ WF_vars(Steps)

----------------------------------------------------------------------------
\* The PostgreSQL variant of NewOpenFGA: the same handle and the same steps
\* from the engine on, with a readiness loop that only polls and a migration
\* that runs once the loop has seen a ready report

\* a process starts and calls the variant's NewOpenFGA (with its logger
\* option given): options, then validation
PgNewOpenFGA(dataStoreURI, opts) ==
    /\ pc \in {"idle", "ready", "failed"}
    /\ boots < MaxBoots
    /\ boots' = boots + 1
    /\ kind' = "openfga"
    /\ srv' = "none" /\ closeCalls' = 0 /\ calls' = 0 /\ last' = NoCall
    /\ conn' = ZeroConn
    /\ io' = {} /\ fault' = FALSE
    /\ ev' = NoEvent
    /\ cfg' = ConfigStatus(dataStoreURI, opts)
    /\ LET r == ApplyOptions(opts, [ZeroFga EXCEPT !.dataStoreURI = dataStoreURI])
       IN IF r.err # NoErr
          THEN Finish(r.fga, Wrap(r.err, <<"failed", "to", "apply", "OpenFGA", "option">>))
          ELSE IF ~ValidateStruct(r.fga)
          THEN Finish(r.fga, NewError("validation",
                   <<"OpenFGA", "server", "configuration", "validation", "failed">>))
          ELSE /\ pc' = "pgOpen"
               /\ fga' = r.fga
               /\ ret' = NoRet
               /\ UNCHANGED <<firstIds, model, report, elapsed, migrations>>
    /\ UNCHANGED <<dbVars, sideVars>>

\* postgres.New, then the timeout timer of the datastore wait
PgOpenDatastore ==
    /\ pc = "pgOpen" /\ kind = "openfga"
    /\ io' = io \cup {"open"}
    /\ \/ /\ Move(fga, "pgProbe")
          /\ elapsed' = 0
          /\ UNCHANGED <<model, report, fault>>
       \/ /\ Finish(fga, Wrap(ErrInternal,
                 <<"failed", "to", "create", "PostgreSQL", "datastore">>))
          /\ fault' = TRUE
    /\ UNCHANGED <<dbVars, apiVars, kind, sideVars, conn, srv, boots, ev, cfg, closeCalls>>

\* pgConfig.IsReady and the branch on its answer: ready leaves the loop, any
\* other report goes to the select, whatever its message
PgDatastoreProbe ==
    /\ pc = "pgProbe" /\ kind = "openfga"
    /\ io' = io \cup {"probe"}
    /\ \E o \in ProbeAnswers(schema) :
          /\ ev' = [call |-> "probe", err |-> o.err, report |-> o.r]
          /\ IF ProbeFailed(o.err)
             THEN /\ Finish(fga, Wrap(o.err, <<"error", "waiting", "for", "PostgreSQL",
                                               "datastore", "to", "be", "ready">>))
                  /\ fault' = TRUE
             ELSE /\ report' = o.r
                  /\ Move(fga, IF o.r.IsReady THEN "pgMigrate" ELSE "pgWait")
                  /\ UNCHANGED <<model, elapsed, fault>>
    /\ UNCHANGED <<dbVars, apiVars, kind, sideVars, conn, srv, boots, cfg, closeCalls>>

PgDatastoreWait ==
    /\ pc = "pgWait" /\ kind = "openfga"
    /\ WaitStep("pgProbe", <<"PostgreSQL", "datastore">>)
    /\ UNCHANGED <<dbVars, apiVars, kind, sideVars, conn, srv, boots, io, cfg, closeCalls>>

\* Migrate, after the loop: migrate.RunMigrations on the datastore the
\* environment names
PgMigrate ==
    /\ pc = "pgMigrate" /\ kind = "openfga"
    /\ io' = io \cup {"migrate"}
    /\ \E err \in {NoErr, ErrInternal} :
          /\ schema' \in RunMigrations(schema, err)
          /\ ev' = [call |-> "migrate", err |-> err]
          /\ IF MigrateFailed(err)
             THEN /\ Finish(fga, Wrap(err, <<"failed", "to", "run", "migration">>))
                  /\ fault' = TRUE
             ELSE /\ pc' = "newServer"
                  /\ migrations' = migrations + 1
                  /\ UNCHANGED <<fga, ret, firstIds, model, report, elapsed, fault>>
    /\ UNCHANGED <<stores, models, tuples, nextId, apiVars, kind, sideVars, conn, srv, boots, cfg, closeCalls>>

PgBootstrap ==
    \/ \E uri \in DataStoreURIs, opts \in OptionSets : PgNewOpenFGA(uri, opts)
    \/ PgOpenDatastore
    \/ PgDatastoreProbe
    \/ PgDatastoreWait
    \/ PgMigrate
    \/ NewServer
    \/ ServerProbe
    \/ LookupStore
    \/ CreateStore
    \/ ReadModelFile
    \/ LookupModel
    \/ WriteModel
    \/ SeedTuples

\* the variant on a cold store, with collaborators that do their part
PgColdNext == PgBootstrap /\ Cooperative

\* a constructor that was called keeps running until it returns
PgColdSpec == Init /\ [][PgColdNext]_vars /\ WF_vars(PgColdNext)

----------------------------------------------------------------------------
\* The evaluation-cost limit: NewOpenFGA writes the handle's MaxEvaluationCost
\* to a key of the process-wide configuration, and passes the engine no limit
\* of its own; the engine evaluates under the value of the key

\* the arguments of WithMaxEvaluationCost, at or above the engine's default
Costs == {-1, 100, 200, 300}

\* the options of a call: none, or one WithMaxEvaluationCost
CostOptions == {<<>>} \cup { <<c>> : c \in Costs }

\* WithMaxEvaluationCost(cost) applied to the struct: [err, fga]
WithMaxEvaluationCost(cost, f) ==
    IF cost < 0
    THEN [err |-> NewError("option", <<"max", "evaluation", "cost", "must", "be", "greater",
                                       "than", "or", "equal", "to", "0">>), fga |-> f]
    ELSE [err |-> NoErr, fga |-> [f EXCEPT !.MaxEvaluationCost = cost]]

\* the limit the engine of handle h evaluates under: the global key
EngineLimit(h) == viper

costFrame ==
    <<schema, stores, models, tuples, nextId, pc, kind, fga, conn, srv, model,
      report, elapsed, boots, calls, io, ret, last, firstIds, cfg, fault,
      closeCalls, migrations, ev, racer, inflight, web>>

\* NewOpenFGA for handle h of the process: the struct literal, the options,
\* then either an error before the global key is written, or viper.Set and
\* the rest of the bootstrap, which can fail as well
CostNewOpenFGA(h, opts) ==
    /\ handles[h].pc = "none"
    /\ LET zero == [pc |-> "running", MaxEvaluationCost |-> DefaultCost,
                    evaluated |-> FALSE, limit |-> 0]
           r == IF opts = <<>> THEN [err |-> NoErr, fga |-> zero]
                ELSE WithMaxEvaluationCost(opts[1], zero)
       IN IF r.err # NoErr \/ r.fga.MaxEvaluationCost < 0
          THEN /\ handles' = [handles EXCEPT ![h] = [r.fga EXCEPT !.pc = "failed"]]
               /\ UNCHANGED viper
          ELSE \/ /\ handles' = [handles EXCEPT ![h] = [r.fga EXCEPT !.pc = "failed"]]
                  /\ UNCHANGED viper
               \/ /\ viper' = r.fga.MaxEvaluationCost
                  /\ \E end \in {"ready", "failed"} :
                        handles' = [handles EXCEPT ![h] = [r.fga EXCEPT !.pc = end]]
    /\ UNCHANGED costFrame

\* fga.Check on handle h: the engine evaluates the request under its limit
CostCheck(h) ==
    /\ handles[h].pc = "ready"
    /\ handles' = [handles EXCEPT ![h].evaluated = TRUE, ![h].limit = EngineLimit(h)]
    /\ UNCHANGED <<costFrame, viper>>

CostNext ==
    \/ \E h \in Handles, opts \in CostOptions : CostNewOpenFGA(h, opts)
    \/ \E h \in Handles : CostCheck(h)

CostSpec == Init /\ [][CostNext]_vars

----------------------------------------------------------------------------
\* Properties

\* the handle the constructor returned
HandleStoreName == IF kind = "openfga" THEN fga.StoreName ELSE conn.storeName
HandleIds ==
    IF kind = "openfga" THEN Ids(fga.StoreID, fga.AuthorizationModelID)
    ELSE Ids(conn.storeID, conn.authorizationModelID)
HandleServer == IF kind = "openfga" THEN fga.Server ELSE conn.fgaServer

\* the facts of a batch the store held before the call, and the ones it did not
Held(rec) ==
    { i \in 1..Len(rec.t) :
        [store |-> HandleIds.StoreID, key |-> NewTupleKey(rec.t[i])] \in rec.before }
Mixed(rec) == Held(rec) # {} /\ Held(rec) # 1..Len(rec.t)

\* a constructor is running
Running == pc \notin {"idle", "ready", "failed"}

\* C1: constructors run one after the other against the same backing store
\* with the same store name end with the same StoreID and the same
\* AuthorizationModelID (the ids the first successful one returned), and a
\* constructor given a valid configuration fails only when a collaborator fails.
C1_IdempotentProvisioning ==
    /\ pc = "ready" => HandleIds = firstIds[HandleStoreName]
    /\ pc = "failed" => (cfg # "valid" \/ fault)

\* a second constructor found the store and the model of an earlier one, and
\* its initial facts too
C1_Witness ==
    /\ pc = "ready" /\ boots = 2
    /\ io \cap {"createStore", "writeModel"} = {}
    /\ HandleIds = firstIds[HandleStoreName]
    /\ HandleIds.AuthorizationModelID # EmptyId
    /\ last.op = "Write" /\ last.eerr = ErrConflict

\* C2: the backing store never holds two stores of one name, and a StoreID
\* in a handle is the id of the first listed store of the handle's store name.
C2_OneStorePerName ==
    /\ \A n \in StoreNames :
          Cardinality({ i \in DOMAIN stores : stores[i].name = n }) <= 1
    /\ HandleIds.StoreID # EmptyId =>
          \E i \in DOMAIN stores :
             /\ stores[i].id = HandleIds.StoreID
             /\ stores[i].name = HandleStoreName
             /\ \A j \in 1..(i - 1) : stores[j].name # HandleStoreName

\* a constructor that failed part-way left a store behind, and the next
\* constructor reused it rather than creating another
C2_Witness ==
    /\ boots = 2 /\ pc \in {"readFile", "eParse"}
    /\ "createStore" \notin io
    /\ HandleIds.StoreID # EmptyId
    /\ firstIds[HandleStoreName] = NoIds

\* C3: when the engine rejects the batch because a fact already exists, Write
\* returns nil if ignoreExisting is true and the wrapped conflict otherwise.
C3_ConflictByFlag ==
    (last.op = "Write" /\ last.eerr = ErrConflict) =>
        IF last.ignoreExisting
        THEN last.ret = NoErr
        ELSE /\ last.ret # NoErr
             /\ last.ret.class = "conflict"
             /\ Contains(last.ret.msg, ErrConflict.msg)

C3_Witness ==
    /\ last.op = "Write" /\ last.eerr = ErrConflict
    /\ ~last.ignoreExisting /\ last.ret # NoErr

\* C4: Write returns an error for every engine error that is not the
\* fact-already-exists conflict, whatever ignoreExisting is.
C4_OnlyConflictSwallowed ==
    (last.op = "Write" /\ last.eerr # NoErr /\ last.eerr.class # "conflict") =>
        last.ret # NoErr

\* C5: a batch that mixes new facts with facts the store holds, written with
\* ignoreExisting, leaves the store as it was and (the engine answering)
\* returns nil.
C5_MixedBatchWritesNothing ==
    (last.op = "Write" /\ last.ignoreExisting /\ Mixed(last)) =>
        /\ tuples = last.before
        /\ last.eerr \notin WriteFaults => last.ret = NoErr

C5_Witness ==
    /\ last.op = "Write" /\ last.ignoreExisting /\ Mixed(last)
    /\ last.ret = NoErr /\ last.eerr = ErrConflict

\* C6: Write with no facts returns an error, for either ignoreExisting, calls
\* the engine not at all and leaves the store as it was.
C6_EmptyWriteFailsFast ==
    (last.op = "Write" /\ Len(last.t) = 0) =>
        /\ last.ret # NoErr
        /\ last.ecalls = <<>>
        /\ tuples = last.before

C6_Witness ==
    /\ last.op = "Write" /\ Len(last.t) = 0 /\ last.ignoreExisting
    /\ last.ret.class = "input"

\* C7: a Check or Write on a handle whose engine was closed does not reach
\* the engine and fails with an already-closed error.
C7_ClosedHandleRefuses ==
    (last.op \in {"Check", "Write", "ConnCheck", "AddTuples"} /\ last.engine = "closed") =>
        /\ last.ecalls = <<>>
        /\ (IF last.op \in {"Check", "ConnCheck"} THEN last.ret.err ELSE last.ret).class = "closed"

\* C8: however often Close is called on a handle, the engine's Close is
\* invoked once.
C8_EngineReleasedOnce == closeCalls <= 1

\* C9: a constructor returns the handle with a nil error and then the engine
\* reference, StoreID and AuthorizationModelID are set, or it returns a nil
\* handle with an error; until it returns, nothing is returned.
C9_AllOrNothingReturn ==
    /\ pc = "ready" =>
          /\ ret = [handle |-> "handle", err |-> NoErr]
          /\ HandleServer # NULL
          /\ HandleIds.StoreID # EmptyId
          /\ HandleIds.AuthorizationModelID # EmptyId
    /\ pc = "failed" => (ret.handle = NULL /\ ret.err # NoErr)
    /\ pc \notin {"ready", "failed"} => ret = NoRet

\* a constructor failed after it had created the store
C9_Witness ==
    /\ pc = "failed" /\ "writeModel" \in io
    /\ ret.handle = NULL /\ ret.err # NoErr

\* C10: NewOpenFGA given no (or an empty) store name, model source or initial
\* facts fails with a configuration error and has called no collaborator: no
\* datastore open, probe, migration, engine construction, store, model or
\* fact write.
C10_ConfigBeforeIO ==
    (kind = "openfga" /\ boots > 0 /\ cfg = "missing") =>
        /\ pc = "failed"
        /\ ret.err.class \in {"option", "validation"}
        /\ io = {}
        /\ srv = "none"

\* the missing option is caught by the validation, an empty one by the option
C10_Witness ==
    /\ kind = "openfga" /\ cfg = "missing" /\ pc = "failed"
    /\ ret.err.class = "validation"

\* C11: NewOpenFGA given a backing-store URI that is empty or not a URL, and
\* an otherwise valid configuration, fails at the validation, before the
\* datastore is opened with that URI.
C11_BadURIRejected ==
    (kind = "openfga" /\ boots > 0 /\ cfg = "baduri") =>
        /\ pc = "failed"
        /\ ret.err.class = "validation"
        /\ "open" \notin io

\* C12: on a cold store, with a datastore that asks for migrations until one
\* has run and is ready afterwards, and with the migration and every engine
\* call succeeding, a constructor that was called returns a ready handle, and
\* never an error.
C12_ColdBootstrapCompletes ==
    /\ [](pc # "failed")
    /\ Running ~> (pc = "ready")

\* C13: a migration is run only right after a probe that answered, without
\* an error, not ready and with the needs-migration text in its message:
\* never after a ready report, a not-ready report without that text or a
\* probe's error.
C13_MigrationOnlyOnSentinel ==
    [][(ev'.call = "migrate" /\ ev.call # "migrate") =>
          /\ ev.call = "probe"
          /\ ev.err = NoErr
          /\ ~ev.report.IsReady
          /\ Contains(ev.report.Message, RequiresMigrations)]_vars

\* a restart against a migrated store whose probe asked for migrations again
C13_Witness ==
    /\ boots = 2 /\ ev.call = "migrate" /\ ev.err = NoErr
    /\ pc \in {"dsWait", "eProbe2"}

\* C14: one NewOpenFGA call runs the migration at most once, whatever the
\* probe reports.
C14_MigrateAtMostOnce == migrations <= 1

\* C15: when the migration returns an error the constructor has returned the
\* migration error: nothing follows the failed migration, no engine was
\* constructed and no store, model or fact was written.
C15_MigrationFailureIsFatal ==
    (ev.call = "migrate" /\ ev.err # NoErr) =>
        /\ pc = "failed"
        /\ ret = Return(Wrap(ev.err, <<"failed", "to", "run", "migrations">>))
        /\ srv = "none"
        /\ io \subseteq {"open", "probe", "migrate"}

C15_Witness ==
    /\ kind = "openfga" /\ pc = "failed"
    /\ ev = [call |-> "migrate", err |-> ErrInternal]
    /\ "migrate" \in io

\* C16: when a probe of the datastore or of the engine returns an error the
\* constructor has returned that error, wrapped: no wait, probe or migration
\* follows it.
C16_ProbeErrorIsFatal ==
    (ev.call \in {"probe", "serverProbe"} /\ ev.err # NoErr) =>
        /\ pc = "failed"
        /\ ret.handle = NULL
        /\ ret.err.class = ev.err.class
        /\ Contains(ret.err.msg, ev.err.msg)

\* the engine's probe failed at its first call, the whole timeout remaining
C16_Witness ==
    /\ kind = "openfga" /\ pc = "failed"
    /\ ev.call = "serverProbe" /\ ev.err = ErrInternal
    /\ "serverProbe" \in io

\* C17: the error of a datastore wait that timed out carries the message of
\* the last not-ready report.
C17_TimeoutCarriesReport ==
    (pc = "failed" /\ ev.call = "timeout" /\ ev.wait = <<"datastore">>) =>
        Contains(ret.err.msg, ev.report.Message)

\* C18: while the probe reports not ready without the needs-migration text,
\* a readiness wait probes no later than at the deadline, a wait entered at
\* the deadline ends, and the timeout error comes no earlier than Timeout and
\* no later than Timeout plus one poll interval after the timer was created.
C18_TimeoutWithinOneInterval ==
    /\ []((Running /\ "migrate" \notin io) => elapsed <= Timeout)
    /\ []((pc = "failed" /\ ev.call = "timeout" /\ "migrate" \notin io) =>
            /\ ev.at >= Timeout
            /\ ev.at <= Timeout + PollInterval
            /\ ret.err.class = "timeout")
    /\ [][(pc \in {"dsWait", "srvWait"} /\ "migrate" \notin io /\ elapsed >= Timeout) =>
            (pc' = "failed" /\ ev'.call = "timeout")]_vars

\* the datastore stayed busy until the timeout
C18_Witness ==
    /\ pc = "failed" /\ "migrate" \notin io
    /\ ev.call = "timeout" /\ ev.wait = <<"datastore">> /\ ev.at = Timeout
    /\ ev.report = BusyReport

\* C19: when the store has models, the constructor writes none and takes the
\* id of the first listed one, whatever DSL it parsed.
C19_ExistingModelReused ==
    /\ [](pc \in {"writeModel", "eWriteModel"} =>
             EngineReadModels(models, HandleIds.StoreID) = <<>>)
    /\ [][(/\ pc \in {"readModels", "eReadModels"}
           /\ EngineReadModels(models, HandleIds.StoreID) # <<>>) =>
             /\ models' = models
             /\ pc' \in {"seed", "ready", "failed"}
             /\ pc' # "failed" =>
                   HandleIds'.AuthorizationModelID =
                       EngineReadModels(models, HandleIds.StoreID)[1].id]_vars

\* the model found was written from another DSL than the one parsed now
C19_Witness ==
    /\ pc = "seed" /\ "writeModel" \notin io
    /\ \E i \in DOMAIN models :
          /\ models[i].id = fga.AuthorizationModelID
          /\ models[i].store = fga.StoreID
          /\ models[i].dsl # model

\* C20: once a constructor succeeded for a store name, a later constructor
\* with that store name creates no store and writes no model.
C20_LaterBootsOnlyLookUp ==
    [][(Running /\ firstIds[HandleStoreName] # NoIds) =>
          /\ stores' = stores
          /\ models' = models
          /\ pc' \notin {"createStore", "eCreateStore", "writeModel", "eWriteModel"}]_vars

C20_Witness ==
    /\ boots = 2 /\ pc = "seed"
    /\ firstIds[fga.StoreName] # NoIds
    /\ {"listStores", "readModels"} \subseteq io
    /\ io \cap {"createStore", "writeModel"} = {}

\* the key of a fact, field by field
KeyOf(t) == [object |-> t.Object, relation |-> t.Relation, user |-> t.User]

\* the facts of a call are all new to the handle's store
Fresh(rec) ==
    \A i \in 1..Len(rec.t) :
        [store |-> HandleIds.StoreID, key |-> KeyOf(rec.t[i])] \notin rec.before

\* C21: on a ready handle a batch of new facts is written whole and without
\* an error (the engine answering), and a Check the engine answers is true
\* for a fact the store holds and false for one it does not hold.
C21_FreshBatchThenCheck ==
    pc = "ready" =>
        /\ (/\ last.op \in {"Write", "AddTuples"} /\ Len(last.t) > 0
            /\ Fresh(last) /\ last.eerr \notin WriteFaults) =>
              /\ last.ret = NoErr
              /\ \A i \in 1..Len(last.t) :
                    [store |-> HandleIds.StoreID, key |-> KeyOf(last.t[i])] \in tuples
        /\ (last.op \in {"Check", "ConnCheck"} /\ last.eerr = NoErr) =>
              /\ last.ret.err = NoErr
              /\ last.ret.allowed =
                    ([store |-> HandleIds.StoreID, key |-> KeyOf(last.t)] \in tuples)

\* a Check denied for a user while another user holds the same relation on
\* the same object
C21_Witness ==
    /\ pc = "ready" /\ calls = 2
    /\ last.op \in {"Check", "ConnCheck"} /\ last.eerr = NoErr /\ ~last.ret.allowed
    /\ \E f \in Facts :
          /\ f # last.t /\ f.Object = last.t.Object /\ f.Relation = last.t.Relation
          /\ [store |-> HandleIds.StoreID, key |-> KeyOf(f)] \in tuples

\* C22: Check makes one engine call, with the handle's StoreID and
\* AuthorizationModelID and the caller's fact; it returns the engine's answer
\* as it is with a nil error, or false with an error when the engine fails;
\* it changes neither the handle nor the store.
C22_CheckPassesThrough ==
    /\ [](last.op \in {"Check", "ConnCheck"} =>
            /\ last.ecalls = << [StoreId |-> HandleIds.StoreID,
                                 AuthorizationModelId |-> HandleIds.AuthorizationModelID,
                                 TupleKey |-> KeyOf(last.t)] >>
            /\ IF last.eerr = NoErr
               THEN last.ret = [allowed |-> last.eallowed, err |-> NoErr]
               ELSE ~last.ret.allowed /\ last.ret.err # NoErr)
    /\ [][(calls' = calls + 1 /\ last'.op \in {"Check", "ConnCheck"}) =>
            UNCHANGED <<fga, conn, schema, stores, models, tuples, nextId, srv>>]_vars

C22_Witness ==
    /\ last.op = "Check" /\ last.eerr # NoErr
    /\ ~last.ret.allowed /\ last.ret.err.class = "internal"

\* C23: Write of a non-empty list makes one engine call whose keys are the
\* facts in the order given, whatever the engine answers.
C23_OneCallInInputOrder ==
    (last.op = "Write" /\ Len(last.t) > 0) =>
        /\ Len(last.ecalls) = 1
        /\ last.ecalls[1].TupleKeys = [i \in 1..Len(last.t) |-> KeyOf(last.t[i])]
        /\ pc = "ready" =>
              /\ last.ecalls[1].StoreId = HandleIds.StoreID
              /\ last.ecalls[1].AuthorizationModelId = HandleIds.AuthorizationModelID

C23_Witness ==
    /\ last.op = "Write" /\ last.via = "caller" /\ Len(last.t) = 2
    /\ Len(last.ecalls) = 1 /\ Len(last.ecalls[1].TupleKeys) = 2
    /\ last.eerr # NoErr

\* C26: Conn.AddTuples with no facts returns an error and calls the engine
\* not at all.
C26_EmptyAddTuplesFailsFast ==
    (last.op = "AddTuples" /\ Len(last.t) = 0) =>
        /\ last.ret # NoErr
        /\ last.ecalls = <<>>

\* C29: after a migration that returned success, NewOpenFGA probes the
\* datastore again before it returns.
C29_ProbeAfterMigration ==
    [][(pc = "dsWait" /\ ev.call = "migrate" /\ ev.err = NoErr /\ pc' # pc) =>
          pc' = "dsProbe"]_vars

\* step b was made only after step a
Before(a, b) == b \in io => a \in io

\* C30: NewOpenFGA takes its steps in one order, each only after the earlier
\* ones succeeded: validation, datastore open, datastore ready, engine
\* construction, engine ready, store lookup and creation, model file read and
\* parse, model lookup and write, write of the initial facts. Nothing is
\* written before the engine reported ready, and no model or fact after a
\* DSL that does not parse.
C30_StepsInOrder ==
    /\ [](kind = "openfga" =>
            /\ io # {} => cfg \in {"valid", "baduri"}
            /\ Before("open", "probe") /\ Before("probe", "migrate")
            /\ Before("probe", "newServer") /\ Before("newServer", "serverProbe")
            /\ Before("serverProbe", "listStores") /\ Before("listStores", "createStore")
            /\ Before("listStores", "readFile") /\ Before("readFile", "parse")
            /\ Before("parse", "readModels") /\ Before("readModels", "writeModel")
            /\ Before("readModels", "write")
            /\ pc = "newServer" => report.IsReady
            /\ pc \in {"srvProbe", "srvWait"} => srv = "running"
            /\ pc \in {"listStores", "createStore", "readFile", "readModels",
                       "writeModel", "seed"} =>
                  /\ fga.Server # NULL
                  /\ ev = [call |-> "serverProbe", err |-> NoErr, isReady |-> TRUE]
            /\ pc \in {"readFile", "readModels", "writeModel", "seed"} =>
                  \E i \in DOMAIN stores : stores[i].id = fga.StoreID
            /\ pc \in {"readModels", "writeModel", "seed"} => model \in DSLs
            /\ pc = "seed" =>
                  \E i \in DOMAIN models : models[i].id = fga.AuthorizationModelID
            /\ (pc = "failed" /\ ret.err.class = "parse") =>
                  io \cap {"readModels", "writeModel", "write"} = {})
    /\ [][(/\ kind = "openfga" /\ Running
           /\ <<stores, models, tuples>>' # <<stores, models, tuples>>) =>
             (fga.Server # NULL /\ srv = "running")]_vars

\* the DSL did not parse after the store had been created
C30_Witness ==
    /\ kind = "openfga" /\ pc = "failed" /\ ret.err.class = "parse"
    /\ "createStore" \in io /\ models = <<>> /\ tuples = {}

\* C27: once NewSqliteServer has succeeded on a datastore, the schema is at the
\* revision the datastore requires and stays there; a later NewSqliteServer on
\* that datastore is never told to migrate by its first probe, runs no
\* migration, goes on to build the engine as soon as the probe answers ready,
\* and fails only when a collaborator call fails.
C27_ReopenNeedsNoMigration ==
    /\ []((kind = "embedded" /\ srv = "running") => schema)
    /\ [][schema => schema']_vars
    /\ [][(kind = "embedded" /\ pc = "eProbe" /\ schema /\ pc' # pc) =>
             /\ ev'.err = NoErr => ev'.report # MigrateReport
             /\ (ev'.err = NoErr /\ ev'.report.IsReady) => pc' = "eNewServer"
             /\ pc' \in {"eNewServer", "failed"}
             /\ pc' = "failed" => fault']_vars
    /\ [][(kind = "embedded" /\ pc = "eNewServer" /\ pc' # pc) =>
             (pc' = "eListStores" \/ fault')]_vars
    /\ []((kind = "embedded" /\ Running /\ firstIds[conn.storeName] # NoIds) =>
             "migrate" \notin io)

\* the second process has reopened the datastore the first one provisioned,
\* and the engine is running without a migration having been run
C27_Witness ==
    /\ kind = "embedded" /\ boots = 2
    /\ pc = "eListStores" /\ srv = "running"
    /\ "migrate" \notin io /\ "probe" \in io
    /\ firstIds[conn.storeName] # NoIds

\* the response shows a protected page, or the request wrote a fact
Protected(w) == w.response.page \in {"document.tmpl", "admin.tmpl"} \/ w.write # <<>>

\* the Check a route asks for: the relation on the object, for the cookie's user
Required(w) ==
    NewCheckRequestTupleKey(
        IF w.route \in {"view", "edit"} THEN "document:" \o w.arg ELSE "app:auth",
        IF w.route = "view" THEN "viewer" ELSE IF w.route = "edit" THEN "editor" ELSE "admin",
        "user:" \o w.cookie.value)

\* C28: a handler shows the document page or the admin panel, or issues the
\* add-tuple Write, only after the Check of the route's relation for the
\* cookie's user answered allowed with no error; when the Check answered an
\* error or not allowed, the response is the authorization error, no Write
\* was issued and the facts are as they were.
C28_FailClosed ==
    web.route # "none" =>
        /\ Protected(web) =>
              /\ Len(web.check) = 1
              /\ web.check[1].key = Required(web)
              /\ web.check[1].err = NoErr
              /\ web.check[1].allowed
        /\ (web.check # <<>> /\ (web.check[1].err # NoErr \/ ~web.check[1].allowed)) =>
              /\ web.response = AuthError
              /\ web.write = <<>>
              /\ tuples = web.before

\* after facts were added through the admin route, an add-tuple request of
\* the administrator whose Check failed was turned away
C28_Witness ==
    /\ web.route = "add-tuple"
    /\ web.check # <<>> /\ web.check[1].err # NoErr
    /\ web.response = AuthError
    /\ tuples # StoredKeys(fga.StoreID, <<NewTupleKey(Admins[1])>>)

\* the racers that have come to the store lookup, and to the model lookup
PastStoreLookup(r) == r.pc \notin {"idle", "listStores"}
PastModelLookup(r) ==
    r.pc \notin {"idle", "listStores", "createStore", "readFile", "readModels"}

\* C24: bootstraps racing on an empty backing store with one store name can
\* leave two stores of that name and two models, and hold different ids; a
\* store or a model is created only by a process whose lookup found none, so
\* a second one comes only from a lookup that ran before the first create,
\* and a process whose lookup found a store or a model holds the first listed.
C24_RaceDuplicatesOnlyFromEmptyLookup ==
    /\ \A i \in 1..Len(stores) :
          \E p \in Racers : /\ PastStoreLookup(racer[p])
                            /\ racer[p].StoreID = stores[i].id
                            /\ racer[p].sawStores = 0
    /\ \A i \in 1..Len(models) :
          \E p \in Racers : /\ PastModelLookup(racer[p])
                            /\ racer[p].AuthorizationModelID = models[i].id
                            /\ racer[p].sawModels = 0
    /\ \A p \in Racers :
          /\ (PastStoreLookup(racer[p]) /\ racer[p].sawStores > 0) =>
                racer[p].StoreID = stores[1].id
          /\ (PastModelLookup(racer[p]) /\ racer[p].sawModels > 0) =>
                racer[p].AuthorizationModelID \in
                    { m.id : m \in { models[i] : i \in 1..Len(models) } }
    /\ Len(stores) <= Cardinality(Racers)
    /\ Len(models) <= Cardinality(Racers)

\* both processes returned a handle, two stores of the one name and two
\* models exist, and the handles hold different StoreIDs
C24_Witness ==
    /\ \A p \in Racers : racer[p].pc = "ready"
    /\ Len(EngineListStores(stores, RaceStoreName)) = 2
    /\ Len(models) = 2
    /\ racer[1].StoreID # racer[2].StoreID
    /\ racer[1].AuthorizationModelID # racer[2].AuthorizationModelID

C31_InitialFactsPresent ==
    (kind = "openfga" /\ pc = "ready" /\ last.op = "Write" /\ last.via = "NewOpenFGA"
       /\ last.eerr \in {NoErr, ErrConflict}) =>
        \A i \in 1..Len(fga.InitialTuples) :
            [store |-> fga.StoreID, key |-> NewTupleKey(fga.InitialTuples[i])] \in tuples

\* C32: when the first NewOpenFGA against a fresh backing store has returned
\* an error, the backing store holds no store, no model and no fact.
C32_FailureLeavesNothing ==
    (kind = "openfga" /\ pc = "failed" /\ boots = 1) =>
        (stores = <<>> /\ models = <<>> /\ tuples = {})

\* C33: when NewOpenFGA has returned an error, no engine is running.
C33_FailureClosesEngine ==
    (kind = "openfga" /\ pc = "failed") => srv # "running"

\* C34: NewEmbeddedSqlite that returns an error after it created the engine
\* has closed that engine, once; until it returns, and when it returns the
\* handle, the engine it created has not been closed.
C34_EngineClosedOnErrorOnly ==
    kind = "embedded" =>
        /\ (pc = "failed" /\ "listStores" \in io) => (srv = "closed" /\ closeCalls = 1)
        /\ (pc = "failed" /\ "listStores" \notin io) => (srv = "none" /\ closeCalls = 0)
        /\ (Running /\ srv # "none") => (srv = "running" /\ closeCalls = 0)
        /\ (pc = "ready" /\ calls = 0) =>
               (srv = "running" /\ closeCalls = 0 /\ conn.fgaServer # NULL)

\* the model write failed, after the store was created, and the engine is closed
C34_Witness ==
    /\ kind = "embedded" /\ pc = "failed"
    /\ "writeModel" \in io /\ "createStore" \in io
    /\ srv = "closed" /\ closeCalls = 1

\* C35: a NewOpenFGA that was called returns, a handle or an error, whatever
\* the probes report, as long as every collaborator call returns.
C35_BootstrapReturns == (kind = "openfga" /\ Running) ~> ~Running

\* the datastore wait ran a migration, went round and ended on its timeout
C35_Witness ==
    /\ kind = "openfga" /\ pc = "failed"
    /\ ev.call = "timeout" /\ ev.wait = <<"datastore">>
    /\ "migrate" \in io

\* C36: in both readiness loops the first probe comes with no wait before it;
\* a ready report leaves the loop with no wait; after a not-ready report the
\* loop waits one poll interval and probes again; and the loop fails on a
\* not-ready report only by its timeout, at the time the timeout is due.
C36_ProbeFirstThenPoll ==
    /\ [][(pc = "open" /\ pc' # pc /\ pc' # "failed") =>
             (pc' = "dsProbe" /\ elapsed' = 0)]_vars
    /\ [][(pc = "newServer" /\ pc' # pc /\ pc' # "failed") =>
             (pc' = "srvProbe" /\ elapsed' = 0)]_vars
    /\ [][(pc = "dsProbe" /\ pc' # pc /\ ev'.err = NoErr) =>
             /\ elapsed' = elapsed
             /\ pc' = (IF ev'.report.IsReady THEN "newServer"
                       ELSE IF NeedsMigration(ev'.report) THEN "migrate" ELSE "dsWait")]_vars
    /\ [][(pc = "srvProbe" /\ pc' # pc /\ ev'.err = NoErr) =>
             /\ elapsed' = elapsed
             /\ pc' = (IF ev'.isReady THEN "listStores" ELSE "srvWait")]_vars
    /\ [][(pc \in {"dsWait", "srvWait"} /\ pc' # pc) =>
             \/ /\ pc' = (IF pc = "dsWait" THEN "dsProbe" ELSE "srvProbe")
                /\ elapsed' = elapsed + PollInterval
             \/ /\ pc' = "failed"
                /\ ev'.call = "timeout"
                /\ ev'.at >= Timeout
                /\ elapsed + PollInterval >= ev'.at]_vars

\* the datastore answered not ready, the loop waited one poll interval and is
\* about to probe again
C36_Witness ==
    /\ kind = "openfga" /\ pc = "dsProbe"
    /\ ev.call = "probe" /\ ev.err = NoErr /\ ~ev.report.IsReady
    /\ elapsed = PollInterval /\ "migrate" \notin io

\* C37: the engine wait begins with its own timer: whatever time the
\* datastore wait and the migration took, the engine wait starts at zero and
\* times out only when its own full timeout is due.
C37_EngineWaitOwnTimeout ==
    /\ [][(pc = "newServer" /\ pc' = "srvProbe") => elapsed' = 0]_vars
    /\ [][(pc = "srvWait" /\ pc' = "failed") =>
             (ev'.call = "timeout" /\ ev'.at = Timeout
                /\ elapsed + PollInterval >= Timeout)]_vars
    /\ [](pc \in {"srvProbe", "srvWait"} => elapsed <= Timeout)

\* after a migration, the engine wait ran to its own timeout
C37_Witness ==
    /\ kind = "openfga" /\ pc = "failed"
    /\ ev.call = "timeout" /\ ev.wait = <<"OpenFGA", "server">> /\ ev.at = Timeout
    /\ "migrate" \in io

\* C38: the PostgreSQL variant, on a datastore without a schema whose probe
\* asks for migrations until one has run, with every collaborator doing its
\* part, runs the migration and returns a ready handle: it never times out
\* waiting for the datastore.
C38_PgColdBootstrapMigrates ==
    /\ [](pc = "failed" => ev.call # "timeout")
    /\ Running ~> (pc = "ready" /\ "migrate" \in io)

\* C39: newSqliteStore never polls or waits. The first probe is followed by
\* the engine, the migration or an error, the migration by the second probe
\* or an error, the second probe by the engine or an error: no step leads
\* back to a probe, at most one migration runs and no time is spent waiting.
\* A not-ready report without the needs-migration text at the first probe,
\* and any not-ready report at the second, end the constructor at once with
\* "datastore is not ready"; the engine is built only right after a probe
\* that reported ready without an error.
C39_SqliteStoreNeverPolls ==
    /\ [][(kind = "embedded" /\ pc = "eProbe") =>
             /\ pc' \in {"eNewServer", "eMigrate", "failed"}
             /\ (ev'.err = NoErr /\ ~ev'.report.IsReady
                    /\ ~Contains(ev'.report.Message, RequiresMigrations)) =>
                        (pc' = "failed" /\ ret'.err.class = "notready")
             /\ pc' = "eMigrate" =>
                    (ev'.err = NoErr /\ ~ev'.report.IsReady
                       /\ Contains(ev'.report.Message, RequiresMigrations))]_vars
    /\ [][(kind = "embedded" /\ pc = "eMigrate") =>
             /\ pc' \in {"eProbe2", "failed"}
             /\ pc' = "eProbe2" => migrations' = 1]_vars
    /\ [][(kind = "embedded" /\ pc = "eProbe2") =>
             /\ pc' \in {"eNewServer", "failed"}
             /\ (ev'.err = NoErr /\ ~ev'.report.IsReady) =>
                    (pc' = "failed" /\ ret'.err.class = "notready")]_vars
    /\ [][(kind = "embedded" /\ pc' = "eNewServer") =>
             (pc \in {"eProbe", "eProbe2"} /\ ev'.call = "probe"
                /\ ev'.err = NoErr /\ ev'.report.IsReady)]_vars
    /\ [](kind = "embedded" => (migrations <= 1 /\ elapsed = 0))

C39_Witness ==
    /\ kind = "embedded" /\ pc = "failed" /\ "migrate" \in io
    /\ ev.call = "probe" /\ ev.err = NoErr /\ ~ev.report.IsReady
    /\ ret.err.class = "notready"

\* C40: a handle's requests are evaluated under the MaxEvaluationCost that
\* handle was constructed with, whatever other handles the process has
\* constructed since.
C40_LimitPerHandle ==
    \A h \in Handles :
        (handles[h].pc = "ready" /\ handles[h].evaluated) =>
            handles[h].limit = handles[h].MaxEvaluationCost

====
